---- MODULE Spec2Model ----
(***************************************************************************)
(* Model of the recruitment chat assistant: the query classifier, the      *)
(* pattern extractors, the retrieval router (smartSearch) and the          *)
(* response cache of ChatService.sendMessage, in both versions of the      *)
(* chat service that the repository carries.                               *)
(*                                                                         *)
(* Text is a sequence of one-character strings, so that includes,          *)
(* startsWith, split and the regular expressions of the source are         *)
(* computed on characters as the code computes them.                       *)
(***************************************************************************)
EXTENDS Integers, Sequences, FiniteSets, TLC

(***************************************************************************)
(* Characters and the string primitives of the JavaScript runtime.         *)
(***************************************************************************)
LowerSeq ==
  <<"a", "b", "c", "d", "e", "f", "g", "h", "i", "j", "k", "l", "m",
    "n", "o", "p", "q", "r", "s", "t", "u", "v", "w", "x", "y", "z">>

UpperSeq ==
  <<"A", "B", "C", "D", "E", "F", "G", "H", "I", "J", "K", "L", "M",
    "N", "O", "P", "Q", "R", "S", "T", "U", "V", "W", "X", "Y", "Z">>

\* the elements of a list, as a set
Range(f) == {f[i] : i \in DOMAIN f}

LowerLetters == Range(LowerSeq)

UpperLetters == Range(UpperSeq)

Digits == {"0", "1", "2", "3", "4", "5", "6", "7", "8", "9"}

Letters == LowerLetters \cup UpperLetters

\* \w of a regular expression
WordChars == Letters \cup Digits \cup {"_"}

\* \s of a regular expression
WhiteSpace == {" ", "\n", "\t"}

ToLowerMap == [c \in UpperLetters |-> LowerSeq[CHOOSE i \in 1..26 : UpperSeq[i] = c]] @@ <<>>

ToUpperMap == [c \in LowerLetters |-> UpperSeq[CHOOSE i \in 1..26 : LowerSeq[i] = c]] @@ <<>>

LowerChar(c) == IF c \in UpperLetters THEN ToLowerMap[c] ELSE c

UpperChar(c) == IF c \in LowerLetters THEN ToUpperMap[c] ELSE c

toLowerCase(s) == [i \in 1..Len(s) |-> LowerChar(s[i])]

toUpperCase(s) == [i \in 1..Len(s) |-> UpperChar(s[i])]

MinOf(S) == CHOOSE x \in S : \A y \in S : x <= y

MaxOf(S) == CHOOSE x \in S : \A y \in S : x >= y

\* String.prototype.trim
trim(s) ==
  LET idx == {i \in 1..Len(s) : s[i] \notin WhiteSpace}
  IN  IF idx = {} THEN <<>> ELSE SubSeq(s, MinOf(idx), MaxOf(idx))

\* String.prototype.includes
includes(s, t) == \E i \in 0..(Len(s) - Len(t)) : SubSeq(s, i + 1, i + Len(t)) = t

\* String.prototype.startsWith
startsWith(s, t) == Len(s) >= Len(t) /\ SubSeq(s, 1, Len(t)) = t

\* s.split(' '): the segments between single blanks, empty segments kept
RECURSIVE split(_)
split(s) ==
  LET sp == {i \in 1..Len(s) : s[i] = " "}
  IN  IF sp = {} THEN <<s>>
      ELSE LET i == MinOf(sp)
           IN  <<SubSeq(s, 1, i - 1)>> \o split(SubSeq(s, i + 1, Len(s)))

\* Array.prototype.join
RECURSIVE join(_, _)
join(ws, sep) ==
  IF Len(ws) = 0 THEN <<>>
  ELSE IF Len(ws) = 1 THEN ws[1]
  ELSE ws[1] \o sep \o join(Tail(ws), sep)

DigitValue(c) == CHOOSE v \in 0..9 : <<"0", "1", "2", "3", "4", "5", "6", "7", "8", "9">>[v + 1] = c

\* parseInt of a run of decimal digits
RECURSIVE parseInt(_)
parseInt(ds) ==
  IF Len(ds) = 0 THEN 0
  ELSE 10 * parseInt(SubSeq(ds, 1, Len(ds) - 1)) + DigitValue(ds[Len(ds)])

\* the absent value of an optional string; a match of the expressions below is never empty
Null == <<>>

(***************************************************************************)
(* Regular expressions: the syntax, and a backtracking matcher with the    *)
(* preference order of the JavaScript engine (leftmost start, greedy       *)
(* repetition, alternatives in the order written).                         *)
(***************************************************************************)
Ch(S) == [op |-> "ch", set |-> S]

NotCh(S) == [op |-> "nch", set |-> S]

Cat(rs) == [op |-> "cat", args |-> rs]

Alt(rs) == [op |-> "alt", args |-> rs]

Star(r) == [op |-> "star", arg |-> r]

Grp(k, r) == [op |-> "grp", idx |-> k, arg |-> r]

\* \b
Bnd == [op |-> "bnd"]

\* $
Eol == [op |-> "eol"]

Eps == Cat(<<>>)

Plus(r) == Cat(<<r, Star(r)>>)

Opt(r) == Alt(<<r, Eps>>)

Lit(t) == Cat([i \in 1..Len(t) |-> Ch({t[i]})])

\* the alternation of literal texts
Words(ts) == Alt([i \in 1..Len(ts) |-> Lit(ts[i])])

\* . (any character but a line break)
AnyCh == NotCh({"\n"})

\* \s and \d
Ws == Ch(WhiteSpace)

Dg == Ch(Digits)

NoCaps == [k \in 1..3 |-> <<0, 0>>]

InSet(c, S, ci) == c \in S \/ (ci /\ (LowerChar(c) \in S \/ UpperChar(c) \in S))

IsWordAt(s, i) == i >= 1 /\ i <= Len(s) /\ s[i] \in WordChars

RECURSIVE M(_, _, _, _, _), MCat(_, _, _, _, _), MAlt(_, _, _, _, _, _), MEach(_, _, _, _, _)
\* the ways r matches s from position i, as (next position, captures), preferred first;
\* ci is the i flag
M(r, s, i, caps, ci) ==
  CASE r.op = "ch" ->
         IF i <= Len(s) /\ InSet(s[i], r.set, ci) THEN <<[pos |-> i + 1, caps |-> caps]>> ELSE <<>>
    [] r.op = "nch" ->
         IF i <= Len(s) /\ ~InSet(s[i], r.set, ci) THEN <<[pos |-> i + 1, caps |-> caps]>> ELSE <<>>
    [] r.op = "cat" -> MCat(r.args, 1, s, <<[pos |-> i, caps |-> caps]>>, ci)
    [] r.op = "alt" -> MAlt(r.args, 1, s, i, caps, ci)
    [] r.op = "star" ->
         LET once == SelectSeq(M(r.arg, s, i, caps, ci), LAMBDA x : x.pos > i)
         IN  MEach(r, s, once, 1, ci) \o <<[pos |-> i, caps |-> caps]>>
    [] r.op = "grp" ->
         LET inner == M(r.arg, s, i, caps, ci)
         IN  [n \in 1..Len(inner) |->
                [pos |-> inner[n].pos, caps |-> [inner[n].caps EXCEPT ![r.idx] = <<i, inner[n].pos>>]]]
    [] r.op = "bnd" ->
         IF IsWordAt(s, i - 1) # IsWordAt(s, i) THEN <<[pos |-> i, caps |-> caps]>> ELSE <<>>
    [] r.op = "eol" ->
         IF i = Len(s) + 1 THEN <<[pos |-> i, caps |-> caps]>> ELSE <<>>

\* rs[k], rs[k+1], ... matched in sequence from each of the states in from
MCat(rs, k, s, from, ci) ==
  IF k > Len(rs) \/ Len(from) = 0 THEN from
  ELSE MCat(rs, k + 1, s, MEach(rs[k], s, from, 1, ci), ci)

\* rs[k], rs[k+1], ... tried in this order from position i
MAlt(rs, k, s, i, caps, ci) ==
  IF k > Len(rs) THEN <<>>
  ELSE M(rs[k], s, i, caps, ci) \o MAlt(rs, k + 1, s, i, caps, ci)

\* r matched from each of from[n], from[n+1], ..., in order
MEach(r, s, from, n, ci) ==
  IF n > Len(from) THEN <<>>
  ELSE M(r, s, from[n].pos, from[n].caps, ci) \o MEach(r, s, from, n + 1, ci)

NoMatch == [found |-> FALSE, start |-> 0, end |-> 0, caps |-> NoCaps]

RECURSIVE MatchFrom(_, _, _, _)
MatchFrom(r, s, p, ci) ==
  IF p > Len(s) + 1 THEN NoMatch
  ELSE LET ms == M(r, s, p, NoCaps, ci)
       IN  IF Len(ms) > 0
             THEN [found |-> TRUE, start |-> p, end |-> ms[1].pos, caps |-> ms[1].caps]
             ELSE MatchFrom(r, s, p + 1, ci)

\* s.match(r) and r.test(s): the leftmost match
Match(r, s, ci) == MatchFrom(r, s, 1, ci)

\* match[0]
Whole(m, s) == SubSeq(s, m.start, m.end - 1)

\* match[k], Null when the group took no part in the match
Group(m, s, k) == SubSeq(s, m.caps[k][1], m.caps[k][2] - 1)

(***************************************************************************)
(* Pattern extractors.                                                     *)
(***************************************************************************)
\* kws.some(kw => text.includes(kw))
someIncluded(kws, text) == \E i \in 1..Len(kws) : includes(text, kws[i])

\* /[\w.-]+@[\w.-]+\.\w+/
EmailRx ==
  Cat(<<Plus(Ch(WordChars \cup {".", "-"})), Ch({"@"}), Plus(Ch(WordChars \cup {".", "-"})),
        Ch({"."}), Plus(Ch(WordChars))>>)

extractEmail(query) ==
  LET match == Match(EmailRx, query, FALSE)
  IN  IF match.found THEN Whole(match, query) ELSE Null

\* /(\+91)?[\s-]?([6-9]\d{9})/
PhoneRx ==
  Cat(<<Opt(Grp(1, Lit(<<"+","9","1">>))), Opt(Ch(WhiteSpace \cup {"-"})),
        Grp(2, Cat(<<Ch({"6", "7", "8", "9"}), Dg, Dg, Dg, Dg, Dg, Dg, Dg, Dg, Dg>>))>>)

extractPhone(query) ==
  LET match == Match(PhoneRx, query, FALSE)
  IN  IF match.found THEN Group(match, query, 2) ELSE Null

\* /([A-Z]{2,4}\d+)/i
JobIdRx ==
  Grp(1, Cat(<<Ch(UpperLetters), Ch(UpperLetters), Opt(Cat(<<Ch(UpperLetters), Opt(Ch(UpperLetters))>>)),
               Plus(Dg)>>))

extractJobId(query) ==
  LET match == Match(JobIdRx, query, TRUE)
  IN  IF match.found THEN toUpperCase(Whole(match, query)) ELSE Null

\* /(?:above|more than|over|greater than|>)\s*(\d+)\s*year|(?:less than|below|under|<)\s*(\d+)\s*year/i
ExperienceRx ==
  Alt(<<Cat(<<Words(<<<<"a","b","o","v","e">>, <<"m","o","r","e"," ","t","h","a","n">>, <<"o","v","e","r">>, <<"g","r","e","a","t","e","r"," ","t","h","a","n">>, <<">">>>>),
              Star(Ws), Grp(1, Plus(Dg)), Star(Ws), Lit(<<"y","e","a","r">>)>>),
        Cat(<<Words(<<<<"l","e","s","s"," ","t","h","a","n">>, <<"b","e","l","o","w">>, <<"u","n","d","e","r">>, <<"<">>>>),
              Star(Ws), Grp(2, Plus(Dg)), Star(Ws), Lit(<<"y","e","a","r">>)>>)>>)

NoFilter == [found |-> FALSE, value |-> 0, operator |-> "gt"]

\* extractExperience: the years and the operator, or nothing
extractExperience(query) ==
  LET match == Match(ExperienceRx, query, TRUE)
  IN  IF match.found
        THEN [found |-> TRUE,
              value |-> parseInt(IF Group(match, query, 1) # Null THEN Group(match, query, 1)
                                 ELSE Group(match, query, 2)),
              operator |-> IF \/ includes(toLowerCase(query), <<"a","b","o","v","e">>)
                              \/ includes(toLowerCase(query), <<"m","o","r","e">>)
                              \/ includes(toLowerCase(query), <<"o","v","e","r">>)
                              \/ includes(toLowerCase(query), <<"g","r","e","a","t","e","r">>)
                           THEN "gt" ELSE "lt"]
        ELSE NoFilter

\* /(\d+)\s*(l|lakh|lpa)/i
SalaryRx == Cat(<<Grp(1, Plus(Dg)), Star(Ws), Grp(2, Words(<<<<"l">>, <<"l","a","k","h">>, <<"l","p","a">>>>))>>)

extractSalary(query) ==
  LET match == Match(SalaryRx, query, TRUE)
  IN  IF match.found
        THEN [found |-> TRUE,
              value |-> parseInt(Group(match, query, 1)) * 100000,
              operator |-> IF includes(query, <<"b","e","l","o","w">>) \/ includes(query, <<"u","n","d","e","r">>)
                           THEN "lt" ELSE "gt"]
        ELSE NoFilter

\* /score\s*(above|below|over|under|>|<)\s*(\d+)/i
ScoreRx ==
  Cat(<<Lit(<<"s","c","o","r","e">>), Star(Ws), Grp(1, Words(<<<<"a","b","o","v","e">>, <<"b","e","l","o","w">>, <<"o","v","e","r">>, <<"u","n","d","e","r">>, <<">">>, <<"<">>>>)),
        Star(Ws), Grp(2, Plus(Dg))>>)

extractScore(query) ==
  LET match == Match(ScoreRx, query, TRUE)
  IN  IF match.found
        THEN [found |-> TRUE,
              value |-> parseInt(Group(match, query, 2)),
              operator |-> IF Match(Words(<<<<"b","e","l","o","w">>, <<"u","n","d","e","r">>, <<"<">>>>), Group(match, query, 1), FALSE).found
                           THEN "lt" ELSE "gt"]
        ELSE NoFilter

\* text.replace(/[^\w\s]/g, ' ')
replaceSpecial(s) == [i \in 1..Len(s) |-> IF s[i] \in WordChars \cup WhiteSpace THEN s[i] ELSE " "]

\* text.replace(/\s+/g, ' ')
RECURSIVE collapseSpaces(_)
collapseSpaces(s) ==
  IF Len(s) = 0 THEN <<>>
  ELSE IF s[1] \in WhiteSpace
    THEN IF Len(s) > 1 /\ s[2] \in WhiteSpace THEN collapseSpaces(Tail(s))
         ELSE <<" ">> \o collapseSpaces(Tail(s))
  ELSE <<s[1]>> \o collapseSpaces(Tail(s))

\* normalizeForSearch: lower case, punctuation to blanks, blanks collapsed, trimmed
normalizeForSearch(text) == trim(collapseSpaces(replaceSpecial(toLowerCase(text))))

\* the first of the longest keywords of the list that the text includes, or Null
\* (filter, then a stable sort by decreasing length, then the head)
longestIncluded(kws, text) ==
  LET matches == {i \in 1..Len(kws) : includes(text, kws[i])}
  IN  IF matches = {} THEN Null
      ELSE kws[CHOOSE i \in matches :
                 \A j \in matches : Len(kws[j]) < Len(kws[i]) \/ (Len(kws[j]) = Len(kws[i]) /\ i <= j)]

skillKeywords ==
  <<<<"j","a","v","a","s","c","r","i","p","t">>, <<"t","y","p","e","s","c","r","i","p","t">>, <<"r","e","a","c","t">>, <<"n","o","d","e">>, <<"p","y","t","h","o","n">>, <<"j","a","v","a">>,
    <<"d","i","a","l","o","g","f","l","o","w">>, <<"p","l","a","y","w","r","i","g","h","t">>, <<"a","w","s">>, <<"a","z","u","r","e">>, <<"g","c","p">>, <<"s","e","r","v","i","c","e","n","o","w">>, <<"s","e","r","v","i","c","e"," ","n","o","w">>,
    <<"s","q","l">>, <<"m","o","n","g","o","d","b">>, <<"k","u","b","e","r","n","e","t","e","s">>, <<"d","o","c","k","e","r">>, <<"a","n","g","u","l","a","r">>, <<"v","u","e">>,
    <<"s","a","p">>, <<"f","i","c","o">>, <<"a","b","a","p">>, <<"h","a","n","a">>, <<"e","r","p">>, <<"c","r","m">>, <<"p","o","w","e","r"," ","b","i">>, <<"p","o","w","e","r","b","i">>,
    <<"t","a","b","l","e","a","u">>, <<"e","x","c","e","l">>, <<"d","a","t","a"," ","s","c","i","e","n","c","e">>, <<"m","a","c","h","i","n","e"," ","l","e","a","r","n","i","n","g">>, <<"m","l">>,
    <<"a","i">>, <<"a","r","t","i","f","i","c","i","a","l"," ","i","n","t","e","l","l","i","g","e","n","c","e">>, <<"d","e","e","p"," ","l","e","a","r","n","i","n","g">>, <<"n","l","p">>,
    <<"c","+","+">>, <<"c","#">>, <<"g","o","l","a","n","g">>, <<"r","u","s","t">>, <<"p","h","p">>, <<"r","u","b","y">>, <<"s","c","a","l","a">>,
    <<"j","e","n","k","i","n","s">>, <<"g","i","t","l","a","b">>, <<"g","i","t","h","u","b">>, <<"d","e","v","o","p","s">>, <<"c","i","/","c","d">>, <<"c","i","c","d">>,
    <<"s","a","p"," ","f","i","c","o">>, <<"s","a","p"," ","m","m">>, <<"s","a","p"," ","s","d">>, <<"s","a","p"," ","h","a","n","a">>, <<"s","a","p"," ","a","b","a","p">>>>

extractSkill(query) == longestIncluded(skillKeywords, normalizeForSearch(query))

jobTitles ==
  <<<<"d","a","t","a"," ","s","c","i","e","n","t","i","s","t">>, <<"d","a","t","a"," ","a","n","a","l","y","s","t">>, <<"d","a","t","a"," ","e","n","g","i","n","e","e","r">>,
    <<"s","o","f","t","w","a","r","e"," ","e","n","g","i","n","e","e","r">>, <<"s","o","f","t","w","a","r","e"," ","d","e","v","e","l","o","p","e","r">>, <<"d","e","v","e","l","o","p","e","r">>,
    <<"f","u","l","l"," ","s","t","a","c","k">>, <<"f","u","l","l","s","t","a","c","k">>, <<"f","r","o","n","t","e","n","d">>, <<"f","r","o","n","t"," ","e","n","d">>, <<"b","a","c","k","e","n","d">>, <<"b","a","c","k"," ","e","n","d">>,
    <<"d","e","v","o","p","s"," ","e","n","g","i","n","e","e","r">>, <<"d","e","v","o","p","s">>,
    <<"s","a","p"," ","c","o","n","s","u","l","t","a","n","t">>, <<"s","a","p"," ","f","i","c","o">>, <<"s","a","p"," ","m","m">>, <<"s","a","p"," ","s","d">>, <<"s","a","p"," ","h","a","n","a">>, <<"s","a","p"," ","a","b","a","p">>,
    <<"b","u","s","i","n","e","s","s"," ","a","n","a","l","y","s","t">>, <<"b","u","s","i","n","e","s","s"," ","i","n","t","e","l","l","i","g","e","n","c","e">>,
    <<"p","r","o","j","e","c","t"," ","m","a","n","a","g","e","r">>, <<"p","r","o","d","u","c","t"," ","m","a","n","a","g","e","r">>,
    <<"q","a"," ","e","n","g","i","n","e","e","r">>, <<"q","u","a","l","i","t","y"," ","a","s","s","u","r","a","n","c","e">>, <<"t","e","s","t","e","r">>,
    <<"u","i","/","u","x"," ","d","e","s","i","g","n","e","r">>, <<"u","x"," ","d","e","s","i","g","n","e","r">>, <<"u","i"," ","d","e","s","i","g","n","e","r">>,
    <<"c","l","o","u","d"," ","a","r","c","h","i","t","e","c","t">>, <<"s","o","l","u","t","i","o","n"," ","a","r","c","h","i","t","e","c","t">>, <<"t","e","c","h","n","i","c","a","l"," ","a","r","c","h","i","t","e","c","t">>,
    <<"m","a","c","h","i","n","e"," ","l","e","a","r","n","i","n","g"," ","e","n","g","i","n","e","e","r">>, <<"m","l"," ","e","n","g","i","n","e","e","r">>, <<"a","i"," ","e","n","g","i","n","e","e","r">>,
    <<"d","a","t","a"," ","a","n","a","l","y","s","t">>, <<"m","i","s"," ","e","x","e","c","u","t","i","v","e">>, <<"m","i","s"," ","a","n","a","l","y","s","t">>,
    <<"a","c","c","o","u","n","t","s"," ","e","x","e","c","u","t","i","v","e">>, <<"a","c","c","o","u","n","t","a","n","t">>, <<"f","i","n","a","n","c","e"," ","m","a","n","a","g","e","r">>>>

extractJobTitle(query) == longestIncluded(jobTitles, normalizeForSearch(query))

\* calculateSimilarity by the character overlap alone
calculateSimilarity_overlapOnly(str1, str2) ==
  LET s1 == normalizeForSearch(str1)
      s2 == normalizeForSearch(str2)
  IN  [num |-> Cardinality(Range(s1) \cap Range(s2)),
       den |-> Cardinality(Range(s1) \cup Range(s2))]

\* calculateSimilarity, as the fraction num / den
calculateSimilarity(str1, str2) ==
  LET s1 == normalizeForSearch(str1)
      s2 == normalizeForSearch(str2)
  IN  IF s1 = s2 THEN [num |-> 1, den |-> 1]
      ELSE IF includes(s1, s2) \/ includes(s2, s1) THEN [num |-> 4, den |-> 5]
      ELSE [num |-> Cardinality(Range(s1) \cap Range(s2)),
            den |-> Cardinality(Range(s1) \cup Range(s2))]

\* sim > a / b
moreThan(sim, a, b) == sim.num * b > a * sim.den

\* /\*\*([A-Z][a-z]+\s+[A-Z][a-z]+(?:\s+[A-Z][a-z]+)?)\*\*/
BoldNameRx ==
  Cat(<<Lit(<<"*","*">>),
        Grp(1, Cat(<<Ch(UpperLetters), Plus(Ch(LowerLetters)), Plus(Ws),
                     Ch(UpperLetters), Plus(Ch(LowerLetters)),
                     Opt(Cat(<<Plus(Ws), Ch(UpperLetters), Plus(Ch(LowerLetters))>>))>>)),
        Lit(<<"*","*">>)>>)

\* /Email:\s*[\w.-]+@[\w.-]+\.\w+/i
EmailLabelRx == Cat(<<Lit(<<"E","m","a","i","l",":">>), Star(Ws), EmailRx>>)

\* /(?:Candidate|Name):\s*\*\*([A-Z][a-z]+\s+[A-Z][a-z]+)\*\*/i
NameBeforeEmailRx ==
  Cat(<<Words(<<<<"C","a","n","d","i","d","a","t","e">>, <<"N","a","m","e">>>>), Lit(<<":">>), Star(Ws), Lit(<<"*","*">>),
        Grp(1, Cat(<<Ch(UpperLetters), Plus(Ch(LowerLetters)), Plus(Ws),
                     Ch(UpperLetters), Plus(Ch(LowerLetters))>>)),
        Lit(<<"*","*">>)>>)

\* the name an assistant turn yields, or Null
nameOfTurn(content) ==
  LET boldNameMatch == Match(BoldNameRx, content, FALSE)
      emailMatch == Match(EmailLabelRx, content, TRUE)
      nameBeforeEmail == Match(NameBeforeEmailRx, content, TRUE)
  IN  IF boldNameMatch.found THEN Group(boldNameMatch, content, 1)
      ELSE IF emailMatch.found /\ nameBeforeEmail.found THEN Group(nameBeforeEmail, content, 1)
      ELSE Null

\* array.slice(-n)
lastN(seq, n) == IF Len(seq) <= n THEN seq ELSE SubSeq(seq, Len(seq) - n + 1, Len(seq))

\* extractNameFromHistory: the name of the first of the last three assistant turns that yields one
extractNameFromHistory(conversationHistory) ==
  LET recentAssistant == lastN(SelectSeq(conversationHistory, LAMBDA m : m.role = "assistant"), 3)
      named == {i \in 1..Len(recentAssistant) : nameOfTurn(recentAssistant[i].content) # Null}
  IN  IF named = {} THEN Null ELSE nameOfTurn(recentAssistant[MinOf(named)].content)

\* the three patterns of extractNameFromQuery, all with the i flag
NameFromQueryRx ==
  <<Cat(<<Words(<<<<"s","i","m","i","l","a","r"," ","t","o">>, <<"l","i","k","e">>, <<"c","a","n","d","i","d","a","t","e","s"," ","l","i","k","e">>>>), Plus(Ws),
          Grp(1, Cat(<<Ch(UpperLetters), Plus(Ch(LowerLetters)),
                       Opt(Cat(<<Plus(Ws), Ch(UpperLetters), Plus(Ch(LowerLetters))>>))>>))>>),
    Cat(<<Words(<<<<"f","i","n","d">>, <<"s","h","o","w">>, <<"g","e","t">>>>), Plus(Ws),
          Grp(1, Cat(<<Ch(UpperLetters), Plus(Ch(LowerLetters)), Plus(Ws),
                       Ch(UpperLetters), Plus(Ch(LowerLetters))>>))>>),
    Cat(<<Grp(1, Cat(<<Ch(UpperLetters), Plus(Ch(LowerLetters)), Plus(Ws),
                       Ch(UpperLetters), Plus(Ch(LowerLetters))>>)),
          Plus(Ws), Words(<<<<"p","r","o","f","i","l","e">>, <<"d","e","t","a","i","l","s">>, <<"i","n","f","o","r","m","a","t","i","o","n">>>>)>>)>>

extractNameFromQuery(query) ==
  LET hits == {i \in 1..Len(NameFromQueryRx) : Match(NameFromQueryRx[i], query, TRUE).found}
  IN  IF hits = {} THEN Null
      ELSE Group(Match(NameFromQueryRx[MinOf(hits)], query, TRUE), query, 1)

\* the two patterns of extractRequestedCount, both with the i flag
RequestedCountRx ==
  <<Cat(<<Words(<<<<"t","o","p">>, <<"f","i","r","s","t">>, <<"b","e","s","t">>, <<"s","h","o","w">>, <<"l","i","s","t">>, <<"g","i","v","e"," ","m","e">>, <<"f","i","n","d">>>>), Plus(Ws),
          Grp(1, Plus(Dg))>>),
    Cat(<<Grp(1, Plus(Dg)), Plus(Ws),
          Words(<<<<"c","a","n","d","i","d","a","t","e","s">>, <<"j","o","b","s">>, <<"c","l","i","e","n","t","s">>, <<"p","e","o","p","l","e">>, <<"p","r","o","f","i","l","e","s">>>>)>>)>>

\* the absent count
NoCount == 0

\* countOfPattern without the upper limit
countOfPattern_noUpperLimit(query, i) ==
  LET match == Match(RequestedCountRx[i], query, TRUE)
      count == parseInt(Group(match, query, 1))
  IN  IF match.found /\ count >= 1 THEN count ELSE NoCount

\* the count a pattern yields when it is within the limits, else NoCount
countOfPattern(query, i) ==
  LET match == Match(RequestedCountRx[i], query, TRUE)
      count == parseInt(Group(match, query, 1))
  IN  IF match.found /\ count >= 1 /\ count <= 100 THEN count ELSE NoCount

extractRequestedCount(query) ==
  IF countOfPattern(query, 1) # NoCount THEN countOfPattern(query, 1)
  ELSE countOfPattern(query, 2)

semanticKeywords ==
  <<<<"s","i","m","i","l","a","r"," ","t","o">>, <<"l","i","k","e">>, <<"c","a","n","d","i","d","a","t","e","s"," ","w","i","t","h"," ","e","x","p","e","r","t","i","s","e"," ","i","n">>, <<"f","i","n","d"," ","s","o","m","e","o","n","e"," ","w","h","o">>, <<"l","o","o","k","i","n","g"," ","f","o","r">>,
    <<"g","o","o","d"," ","f","i","t"," ","f","o","r">>, <<"e","x","p","e","r","i","e","n","c","e"," ","i","n">>, <<"b","a","c","k","g","r","o","u","n","d"," ","i","n">>, <<"s","p","e","c","i","a","l","i","z","e","s"," ","i","n">>, <<"e","x","p","e","r","t"," ","i","n">>,
    <<"p","r","o","f","i","c","i","e","n","t"," ","i","n">>, <<"s","k","i","l","l","e","d"," ","i","n">>, <<"w","h","o"," ","k","n","o","w","s">>, <<"f","a","m","i","l","i","a","r"," ","w","i","t","h">>>>

shouldUseSemanticSearch(query) == someIncluded(semanticKeywords, toLowerCase(query))

\* /(\d+)\s*year/i and /(\d+)\s*month/i
YearRx == Cat(<<Grp(1, Plus(Dg)), Star(Ws), Lit(<<"y","e","a","r">>)>>)

MonthRx == Cat(<<Grp(1, Plus(Dg)), Star(Ws), Lit(<<"m","o","n","t","h">>)>>)

\* parseExperience, in months (the code returns years + months / 12)
parseExperience(experienceText) ==
  LET yearMatch == Match(YearRx, experienceText, TRUE)
      monthMatch == Match(MonthRx, experienceText, TRUE)
  IN  (IF yearMatch.found THEN 12 * parseInt(Group(yearMatch, experienceText, 1)) ELSE 0)
      + (IF monthMatch.found THEN parseInt(Group(monthMatch, experienceText, 1)) ELSE 0)

(***************************************************************************)
(* Query classifier.                                                       *)
(***************************************************************************)
greetings ==
  <<<<"h","i">>, <<"h","e","l","l","o">>, <<"h","e","y">>, <<"g","o","o","d"," ","m","o","r","n","i","n","g">>, <<"g","o","o","d"," ","a","f","t","e","r","n","o","o","n">>, <<"g","o","o","d"," ","e","v","e","n","i","n","g">>, <<"g","r","e","e","t","i","n","g","s">>>>

helpKeywords ==
  <<<<"h","e","l","p">>, <<"w","h","a","t"," ","c","a","n"," ","y","o","u"," ","d","o">>, <<"h","o","w"," ","d","o"," ","y","o","u"," ","w","o","r","k">>, <<"c","a","p","a","b","i","l","i","t","i","e","s">>, <<"f","e","a","t","u","r","e","s">>>>

recruitmentKeywords ==
  <<<<"c","a","n","d","i","d","a","t","e">>, <<"j","o","b">>, <<"p","o","s","i","t","i","o","n">>, <<"o","p","e","n","i","n","g">>, <<"v","a","c","a","n","c","y">>, <<"r","o","l","e">>, <<"h","i","r","e">>, <<"h","i","r","i","n","g">>,
    <<"r","e","s","u","m","e">>, <<"c","v">>, <<"s","k","i","l","l">>, <<"e","x","p","e","r","i","e","n","c","e">>, <<"i","n","t","e","r","v","i","e","w">>, <<"s","t","a","t","u","s">>, <<"a","p","p","l","i","c","a","t","i","o","n">>,
    <<"s","a","l","a","r","y">>, <<"c","t","c">>, <<"c","o","m","p","e","n","s","a","t","i","o","n">>, <<"l","o","c","a","t","i","o","n">>, <<"q","u","a","l","i","f","i","c","a","t","i","o","n">>, <<"e","d","u","c","a","t","i","o","n">>,
    <<"c","l","i","e","n","t">>, <<"p","r","o","j","e","c","t">>, <<"s","c","r","e","e","n","i","n","g">>, <<"s","e","l","e","c","t","e","d">>, <<"r","e","j","e","c","t","e","d">>, <<"p","i","p","e","l","i","n","e">>,
    <<"a","n","a","l","y","t","i","c","s">>, <<"r","e","p","o","r","t">>, <<"m","e","t","r","i","c","s">>, <<"j","d">>, <<"j","o","b"," ","d","e","s","c","r","i","p","t","i","o","n">>, <<"p","r","o","f","i","l","e">>>>

\* /\b[A-Z][a-z]+(?:\s+[A-Z][a-z]+)+\b/
namePattern ==
  Cat(<<Bnd, Ch(UpperLetters), Plus(Ch(LowerLetters)),
        Plus(Cat(<<Plus(Ws), Ch(UpperLetters), Plus(Ch(LowerLetters))>>)), Bnd>>)

\* classifyQuery with the short-message limit at two words
classifyQuery_shortLimit2(query) ==
  LET lowerQuery == trim(toLowerCase(query))
      hasRecruitmentKeyword == someIncluded(recruitmentKeywords, lowerQuery)
      hasIdentifier ==
        extractEmail(query) # Null \/ extractPhone(query) # Null \/ extractJobId(query) # Null
  IN  IF \E i \in 1..Len(greetings) :
             lowerQuery = greetings[i] \/ startsWith(lowerQuery, greetings[i] \o <<" ">>)
        THEN [type |-> "greeting", confidence |-> 10]
      ELSE IF someIncluded(helpKeywords, lowerQuery)
        THEN [type |-> "help", confidence |-> 9]
      ELSE IF hasRecruitmentKeyword \/ hasIdentifier
        THEN [type |-> "recruitment", confidence |-> 9]
      ELSE IF Match(namePattern, query, FALSE).found /\ Len(split(query)) <= 5
        THEN [type |-> "recruitment", confidence |-> 7]
      ELSE IF Len(split(query)) <= 2 /\ ~hasRecruitmentKeyword
        THEN [type |-> "unclear", confidence |-> 5]
      ELSE [type |-> "off_topic", confidence |-> 8]

\* classifyQuery with the help test ahead of the greeting test
classifyQuery_helpFirst(query) ==
  LET lowerQuery == trim(toLowerCase(query))
      hasRecruitmentKeyword == someIncluded(recruitmentKeywords, lowerQuery)
      hasIdentifier ==
        extractEmail(query) # Null \/ extractPhone(query) # Null \/ extractJobId(query) # Null
  IN  IF someIncluded(helpKeywords, lowerQuery)
        THEN [type |-> "help", confidence |-> 9]
      ELSE IF \E i \in 1..Len(greetings) :
             lowerQuery = greetings[i] \/ startsWith(lowerQuery, greetings[i] \o <<" ">>)
        THEN [type |-> "greeting", confidence |-> 10]
      ELSE IF hasRecruitmentKeyword \/ hasIdentifier
        THEN [type |-> "recruitment", confidence |-> 9]
      ELSE IF Match(namePattern, query, FALSE).found /\ Len(split(query)) <= 5
        THEN [type |-> "recruitment", confidence |-> 7]
      ELSE IF Len(split(query)) <= 3 /\ ~hasRecruitmentKeyword
        THEN [type |-> "unclear", confidence |-> 5]
      ELSE [type |-> "off_topic", confidence |-> 8]

\* classifyQuery: the type and the confidence (in tenths)
classifyQuery(query) ==
  LET lowerQuery == trim(toLowerCase(query))
      hasRecruitmentKeyword == someIncluded(recruitmentKeywords, lowerQuery)
      hasIdentifier ==
        extractEmail(query) # Null \/ extractPhone(query) # Null \/ extractJobId(query) # Null
  IN  IF \E i \in 1..Len(greetings) :
             lowerQuery = greetings[i] \/ startsWith(lowerQuery, greetings[i] \o <<" ">>)
        THEN [type |-> "greeting", confidence |-> 10]
      ELSE IF someIncluded(helpKeywords, lowerQuery)
        THEN [type |-> "help", confidence |-> 9]
      ELSE IF hasRecruitmentKeyword \/ hasIdentifier
        THEN [type |-> "recruitment", confidence |-> 9]
      ELSE IF Match(namePattern, query, FALSE).found /\ Len(split(query)) <= 5
        THEN [type |-> "recruitment", confidence |-> 7]
      ELSE IF Len(split(query)) <= 3 /\ ~hasRecruitmentKeyword
        THEN [type |-> "unclear", confidence |-> 5]
      ELSE [type |-> "off_topic", confidence |-> 8]

(***************************************************************************)
(* The external store: the rows of its tables, and the reads the router    *)
(* issues against it.  A null text column is Null, a null number NullNum.  *)
(***************************************************************************)
NullNum == -1

Cand_Asha ==
  [id |-> 1, name |-> <<"A","s","h","a"," ","R","a","o">>, email |-> <<"a","s","h","a","@","x",".","c","o">>, phone |-> <<"9","8","7","6","5","4","3","2","1","0">>,
   skills |-> <<<<"P","y","t","h","o","n">>, <<"A","W","S">>>>, experience |-> <<"5"," ","y","e","a","r","s">>,
   resume_text |-> <<"c","l","o","u","d"," ","e","n","g","i","n","e","e","r",","," ","g","o","o","d"," ","a","t"," ","i","t">>, applied_date |-> 10,
   overall_score |-> 85, status |-> <<"S","c","r","e","e","n","i","n","g">>, interview_result |-> Null,
   location |-> <<"P","u","n","e">>, expected_salary |-> 1500000]

Cand_Ravi ==
  [id |-> 2, name |-> <<"R","a","v","i"," ","K","u","m","a","r">>, email |-> <<"r","a","v","i","@","y",".","i","n">>, phone |-> <<"9","1","2","3","4","5","6","7","8","0">>,
   skills |-> <<<<"J","a","v","a">>>>, experience |-> <<"2"," ","y","e","a","r","s"," ","6"," ","m","o","n","t","h","s">>,
   resume_text |-> <<"d","a","t","a"," ","a","n","a","l","y","s","t",","," ","u","n","i","x"," ","b","o","d","y"," ","o","f"," ","a"," ","d","o","t"," ","c","o","m">>, applied_date |-> 20,
   overall_score |-> 70, status |-> <<"O","f","f","e","r","e","d">>, interview_result |-> <<"S","e","l","e","c","t","e","d">>,
   location |-> <<"C","h","e","n","n","a","i">>, expected_salary |-> 2500000]

Cand_Meera ==
  [id |-> 3, name |-> <<"M","e","e","r","a"," ","N","a","i","r">>, email |-> Null, phone |-> Null,
   skills |-> <<>>, experience |-> Null, resume_text |-> Null, applied_date |-> 5,
   overall_score |-> NullNum, status |-> Null, interview_result |-> <<"R","e","j","e","c","t","e","d">>,
   location |-> Null, expected_salary |-> NullNum]

\* the candidate of the end-to-end scenario: skills Python and AWS, score 85, nothing else
Cand_Scenario ==
  [id |-> 4, name |-> <<"S","a","m"," ","L","e","e">>, email |-> Null, phone |-> Null,
   skills |-> <<<<"P","y","t","h","o","n">>, <<"A","W","S">>>>, experience |-> Null, resume_text |-> Null, applied_date |-> 1,
   overall_score |-> 85, status |-> Null, interview_result |-> Null,
   location |-> Null, expected_salary |-> NullNum]

Job_AB12 ==
  [id |-> 1, job_id |-> <<"A","B","1","2">>, title |-> <<"D","a","t","a"," ","A","n","a","l","y","s","t">>, status |-> <<"A","c","t","i","v","e">>,
   skills |-> <<<<"S","Q","L">>>>, description |-> Null]

Job_XY7 ==
  [id |-> 2, job_id |-> <<"X","Y","7">>, title |-> <<"J","a","v","a"," ","D","e","v","e","l","o","p","e","r">>, status |-> <<"C","l","o","s","e","d">>,
   skills |-> <<<<"J","a","v","a">>>>, description |-> Null]

Client_Acme == [id |-> 1, client_name |-> <<"A","c","m","e">>, status |-> <<"A","c","t","i","v","e">>]

Client_Globex == [id |-> 2, client_name |-> <<"G","l","o","b","e","x">>, status |-> <<"I","n","a","c","t","i","v","e">>]

Contact_Acme == [id |-> 1, name |-> <<"L","e","e">>]

Status_Open == [id |-> 1, name |-> <<"O","p","e","n">>, display_order |-> 1]

EmptyStore ==
  [candidates |-> <<>>, jobs |-> <<>>, clients |-> <<>>, contacts |-> <<>>, statuses |-> <<>>,
   similar |-> <<>>]

\* the store of the end-to-end scenario: one candidate with skills Python and AWS, score 85
ScenarioStore == [EmptyStore EXCEPT !.candidates = <<Cand_Scenario>>]

\* one candidate, all of whose text columns are filled
SoloStore == [EmptyStore EXCEPT !.candidates = <<Cand_Asha>>]

\* no candidates, but jobs, clients and statuses
JobsStore ==
  [EmptyStore EXCEPT !.jobs = <<Job_AB12, Job_XY7>>, !.clients = <<Client_Acme, Client_Globex>>,
                     !.contacts = <<Contact_Acme>>, !.statuses = <<Status_Open>>]

\* all tables filled; the candidates are not in the order of their scores
FullStore ==
  [candidates |-> <<Cand_Meera, Cand_Ravi, Cand_Scenario, Cand_Asha>>, jobs |-> <<Job_AB12, Job_XY7>>,
   clients |-> <<Client_Acme, Client_Globex>>, contacts |-> <<Contact_Acme>>,
   statuses |-> <<Status_Open>>, similar |-> <<Cand_Ravi>>]

Stores == {EmptyStore, ScenarioStore, SoloStore, JobsStore, FullStore}

\* a slice that keeps every row
slice0_unlimited(rows, n) == rows

\* array.slice(0, n) and .limit(n)
slice0(rows, n) == IF Len(rows) <= n THEN rows ELSE SubSeq(rows, 1, n)

\* text ILIKE %pattern% (the pattern holds no wildcard of its own); a null column never matches
ilike(text, pattern) == text # Null /\ includes(toLowerCase(text), toLowerCase(pattern))

\* the score a row is ordered by when a null counts as the lowest
scoreKey(c) == c.overall_score

\* the keyed rows with x inserted before the first of lower key (a stable descending insert)
RECURSIVE insertByKey(_, _)
insertByKey(keyed, x) ==
  IF Len(keyed) = 0 THEN <<x>>
  ELSE IF keyed[1].key < x.key THEN <<x>> \o keyed
  ELSE <<keyed[1]>> \o insertByKey(Tail(keyed), x)

RECURSIVE sortByKey(_)
sortByKey(keyed) ==
  IF Len(keyed) = 0 THEN <<>>
  ELSE insertByKey(sortByKey(SubSeq(keyed, 1, Len(keyed) - 1)), keyed[Len(keyed)])

\* the rows in descending order of their keys, rows of equal keys in their order
orderDesc(rows, key(_)) ==
  LET sorted == sortByKey([i \in 1..Len(rows) |-> [row |-> rows[i], key |-> key(rows[i])]])
  IN  [i \in 1..Len(rows) |-> sorted[i].row]

\* .order('overall_score', { ascending: false }), nulls last
orderByScoreDesc(rows) == orderDesc(rows, scoreKey)

ids(rows) == [i \in 1..Len(rows) |-> rows[i].id]

(***************************************************************************)
(* The retrieval router, smartSearch of the first chat service.            *)
(*                                                                         *)
(* A store read either returns its rows, or reports an error value (the    *)
(* data is null), or throws.  A fault plan says which reads fail and how.  *)
(* The router returns the type of its result, the ids of the rows and the  *)
(* reads it issued, in order.                                              *)
(***************************************************************************)
NoFault == [kind |-> "none", at |-> "none"]

\* how the read named id ends under the fault plan: "ok", "error" or "throw"
faultAt(fault, id) ==
  IF fault.kind # "none" /\ (fault.at = "all" \/ fault.at = id) THEN fault.kind ELSE "ok"

\* a read whose error value is not looked at
fetch_ignoresError(fault, id, rows) == rows

\* const { data } = await ...: the rows, or nothing when the read reports an error
fetch(fault, id, rows) == IF faultAt(fault, id) = "ok" THEN rows ELSE <<>>

\* a read as it is issued: its name, the column and value of its filter, and its limit
Rd(id, col, val, limit) == [id |-> id, col |-> col, val |-> val, limit |-> limit]

\* the outcome of a step of the router that issued reads
Out(fault, reads, type, rows) ==
  LET bad == {i \in 1..Len(reads) : faultAt(fault, reads[i].id) = "throw"}
  IN  IF bad # {}
        THEN [reads |-> SubSeq(reads, 1, MinOf(bad)), thrown |-> TRUE, hit |-> FALSE,
              type |-> "error", rows |-> <<>>]
        ELSE [reads |-> reads, thrown |-> FALSE, hit |-> Len(rows) > 0,
              type |-> type, rows |-> ids(rows)]

\* a semantic search whose failure is thrown into the router's outer catch
semanticOutcome_uncaught(fault, reads, rows) ==
  Out(fault, reads, "semantic_search", fetch(fault, "semantic", rows))

\* the outcome of the semantic search: searchSimilarCandidates returns [] on every
\* failure of its own, and the router catches what it throws
semanticOutcome(fault, reads, rows) ==
  [Out(NoFault, reads, "semantic_search", fetch(fault, "semantic", rows))
     EXCEPT !.hit = @ /\ faultAt(fault, "semantic") = "ok"]

\* the outcome of a step whose trigger does not match
Skip == [reads |-> <<>>, thrown |-> FALSE, hit |-> FALSE, type |-> "", rows |-> <<>>]

\* the three free-text fields of a candidate that the fuzzy filters look at
skillsText(c) == join(c.skills, <<" ">>)

\* normalized.includes(searchNormalized), or every word of the term is in the field
\* or close to the whole field
fieldMatchesTerm(field, searchNormalized) ==
  LET normalized == normalizeForSearch(field)
      words == split(searchNormalized)
  IN  \/ includes(normalized, searchNormalized)
      \/ \A i \in 1..Len(words) :
            includes(normalized, words[i]) \/ moreThan(calculateSimilarity(normalized, words[i]), 7, 10)

\* /(?:top|best|show|list|find)\s+(\d+)?\s*(?:candidates?)?\s+(?:of|for|with|in)\s+(.+)/i
topCandidatesOfPattern ==
  Cat(<<Words(<<<<"t","o","p">>, <<"b","e","s","t">>, <<"s","h","o","w">>, <<"l","i","s","t">>, <<"f","i","n","d">>>>), Plus(Ws), Opt(Grp(1, Plus(Dg))), Star(Ws),
        Opt(Cat(<<Lit(<<"c","a","n","d","i","d","a","t","e">>), Opt(Ch({"s"}))>>)), Plus(Ws),
        Words(<<<<"o","f">>, <<"f","o","r">>, <<"w","i","t","h">>, <<"i","n">>>>), Plus(Ws), Grp(2, Plus(AnyCh))>>)

\* /(?:top|best|highest)\s+\d+\s*(?:candidates?)?/i
topCandidatesPattern ==
  Cat(<<Words(<<<<"t","o","p">>, <<"b","e","s","t">>, <<"h","i","g","h","e","s","t">>>>), Plus(Ws), Plus(Dg), Star(Ws),
        Opt(Cat(<<Lit(<<"c","a","n","d","i","d","a","t","e">>), Opt(Ch({"s"}))>>))>>)

\* /(?:all|every|show)\s+(?:the\s+)?candidates?(?:\s+list)?$/i
allCandidatesPattern ==
  Cat(<<Words(<<<<"a","l","l">>, <<"e","v","e","r","y">>, <<"s","h","o","w">>>>), Plus(Ws), Opt(Cat(<<Lit(<<"t","h","e">>), Plus(Ws)>>)),
        Lit(<<"c","a","n","d","i","d","a","t","e">>), Opt(Ch({"s"})), Opt(Cat(<<Plus(Ws), Lit(<<"l","i","s","t">>)>>)), Eol>>)

followUpKeywords ==
  <<<<"a","p","p","l","i","e","d">>, <<"d","a","t","e">>, <<"w","h","e","n">>, <<"s","t","a","t","u","s">>, <<"i","n","t","e","r","v","i","e","w">>, <<"s","k","i","l","l","s">>, <<"e","x","p","e","r","i","e","n","c","e">>, <<"s","a","l","a","r","y">>,
    <<"t","h","e","i","r">>, <<"h","i","s">>, <<"h","e","r">>, <<"w","h","a","t"," ","a","b","o","u","t">>, <<"t","e","l","l"," ","m","e"," ","m","o","r","e">>>>

\* the status dictionary, in the order of its keys
statusKeys == <<"screening", "selected", "rejected", "interview", "offered">>

statusKeywords ==
  [screening |-> <<<<"s","c","r","e","e","n","i","n","g">>, <<"r","e","v","i","e","w","i","n","g">>, <<"i","n"," ","r","e","v","i","e","w">>>>,
   selected  |-> <<<<"s","e","l","e","c","t","e","d">>, <<"h","i","r","e","d">>, <<"a","c","c","e","p","t","e","d">>, <<"p","a","s","s","e","d">>, <<"s","u","c","c","e","e","d","e","d">>>>,
   rejected  |-> <<<<"r","e","j","e","c","t","e","d">>, <<"d","e","c","l","i","n","e","d">>, <<"f","a","i","l","e","d">>, <<"n","o","t"," ","s","e","l","e","c","t","e","d">>>>,
   interview |-> <<<<"i","n","t","e","r","v","i","e","w">>, <<"i","n","t","e","r","v","i","e","w","i","n","g">>, <<"s","c","h","e","d","u","l","e","d">>>>,
   offered   |-> <<<<"o","f","f","e","r","e","d">>, <<"o","f","f","e","r">>, <<"o","f","f","e","r"," ","s","t","a","g","e">>>>]

\* matchedStatusKey.charAt(0).toUpperCase() + matchedStatusKey.slice(1)
statusValues ==
  [screening |-> <<"S","c","r","e","e","n","i","n","g">>, selected |-> <<"S","e","l","e","c","t","e","d">>, rejected |-> <<"R","e","j","e","c","t","e","d">>,
   interview |-> <<"I","n","t","e","r","v","i","e","w">>, offered |-> <<"O","f","f","e","r","e","d">>]

\* the first key of the dictionary one of whose keywords the query includes, or ""
matchedStatusKey(lowerQuery) ==
  LET hits == {i \in 1..Len(statusKeys) : someIncluded(statusKeywords[statusKeys[i]], lowerQuery)}
  IN  IF hits = {} THEN "" ELSE statusKeys[MinOf(hits)]

statusColumn(key) == IF key \in {"screening", "offered"} THEN "status" ELSE "interview_result"

locations ==
  <<<<"b","a","n","g","a","l","o","r","e">>, <<"b","e","n","g","a","l","u","r","u">>, <<"c","h","e","n","n","a","i">>, <<"h","y","d","e","r","a","b","a","d">>, <<"p","u","n","e">>, <<"m","u","m","b","a","i">>, <<"d","e","l","h","i">>, <<"c","o","i","m","b","a","t","o","r","e">>>>

\* locations.find(loc => lowerQuery.includes(loc)), or Null
matchedLocation(lowerQuery) ==
  LET hits == {i \in 1..Len(locations) : includes(lowerQuery, locations[i])}
  IN  IF hits = {} THEN Null ELSE locations[MinOf(hits)]

jobKeywords == <<<<"j","o","b">>, <<"p","o","s","i","t","i","o","n">>, <<"o","p","e","n","i","n","g">>, <<"v","a","c","a","n","c","y">>, <<"r","o","l","e">>>>

catchAllStopWords == <<<<"t","h","e">>, <<"s","h","o","w">>, <<"f","i","n","d">>, <<"l","i","s","t">>, <<"g","i","v","e">>, <<"g","e","t">>, <<"m","e">>, <<"a","l","l">>>>

\* the search terms of the catch-all search
catchAllTerms(lowerQuery) ==
  join(SelectSeq(split(lowerQuery), LAMBDA w : Len(w) > 2 /\ w \notin Range(catchAllStopWords)), <<" ">>)

\* a field matches when it includes the terms, or at least 70% of their words are
\* in the field or close to one of its words
fieldMatchesWords(field, searchNormalized) ==
  LET normalized == normalizeForSearch(field)
      searchWords == split(searchNormalized)
      fieldWords == split(normalized)
      matchedWords ==
        {i \in 1..Len(searchWords) :
           \/ includes(normalized, searchWords[i])
           \/ \E j \in 1..Len(fieldWords) :
                 moreThan(calculateSimilarity(fieldWords[j], searchWords[i]), 3, 4)}
  IN  \/ includes(normalized, searchNormalized)
      \/ 10 * Cardinality(matchedWords) >= 7 * Len(searchWords)

nameStopWords ==
  <<<<"c","a","n">>, <<"g","e","t">>, <<"g","i","v","e">>, <<"d","e","t","a","i","l","s">>, <<"o","f">>, <<"a","b","o","u","t">>, <<"s","h","o","w">>, <<"f","i","n","d">>, <<"t","h","e">>, <<"l","i","s","t">>, <<"a","l","l">>,
    <<"a","r","e">>, <<"w","h","o">>, <<"h","i">>, <<"a","p","p","l","i","e","d">>, <<"d","a","t","e">>, <<"w","h","e","n">>, <<"t","o","p">>, <<"b","e","s","t">>>>

\* the name guess of the name search
potentialName(lowerQuery) ==
  trim(join(SelectSeq(split(lowerQuery), LAMBDA w : w \notin Range(nameStopWords) /\ Len(w) >= 2),
            <<" ">>))

\* (overall_score || 0), the key of the sort of the catch-all search
scoreOrZero(c) == IF c.overall_score = NullNum THEN 0 ELSE c.overall_score

\* the steps with the skill search moved before the identifier searches
StepOrder_skillBeforeEmail ==
  <<"top_of", "top_n", "all", "followup", "skill", "email", "phone", "job_id", "semantic",
    "experience", "score", "salary", "title_candidates", "title_jobs", "status", "location",
    "client", "job", "status_types", "catch_all", "name_phrase", "name_and", "name_or",
    "last_resort">>

\* the names of the steps of the router, in the order of the code; the job title
\* strategy reads candidates and then jobs, the name search issues four reads in turn
StepOrder ==
  <<"top_of", "top_n", "all", "followup", "email", "phone", "job_id", "semantic", "experience",
    "score", "salary", "skill", "title_candidates", "title_jobs", "status", "location", "client",
    "job", "status_types", "catch_all", "name_phrase", "name_and", "name_or", "last_resort">>

\* whether the trigger of a step matches the query (and the history)
trigger(id, ctx) ==
  LET query == ctx.query
      lowerQuery == toLowerCase(ctx.query)
      plain == extractEmail(query) = Null /\ extractPhone(query) = Null /\ extractSkill(query) = Null
  IN  CASE id = "top_of" -> Match(topCandidatesOfPattern, query, TRUE).found
        [] id = "top_n" -> Match(topCandidatesPattern, lowerQuery, TRUE).found /\ plain
        [] id = "all" -> Match(allCandidatesPattern, lowerQuery, TRUE).found /\ plain
        [] id = "followup" ->
             /\ someIncluded(followUpKeywords, lowerQuery)
             /\ Len(split(lowerQuery)) < 8
             /\ extractEmail(query) = Null
             /\ extractPhone(query) = Null
             /\ Len(ctx.history) > 0
             /\ extractNameFromHistory(ctx.history) # Null
        [] id = "email" -> extractEmail(query) # Null
        [] id = "phone" -> extractPhone(query) # Null
        [] id = "job_id" -> extractJobId(query) # Null
        [] id = "semantic" -> shouldUseSemanticSearch(query)
        [] id = "experience" -> extractExperience(query).found
        [] id = "score" -> extractScore(query).found
        [] id = "salary" -> extractSalary(query).found
        [] id = "skill" -> extractSkill(query) # Null
        [] id \in {"title_candidates", "title_jobs"} -> extractJobTitle(query) # Null
        [] id = "status" -> matchedStatusKey(lowerQuery) # ""
        [] id = "location" -> matchedLocation(lowerQuery) # Null
        [] id = "client" -> includes(lowerQuery, <<"c","l","i","e","n","t">>)
        [] id = "job" -> someIncluded(jobKeywords, lowerQuery)
        [] id = "status_types" ->
             /\ includes(lowerQuery, <<"s","t","a","t","u","s">>)
             /\ \/ includes(lowerQuery, <<"t","y","p","e">>)
                \/ includes(lowerQuery, <<"l","i","s","t">>)
                \/ includes(lowerQuery, <<"a","v","a","i","l","a","b","l","e">>)
        [] id = "catch_all" -> Len(catchAllTerms(lowerQuery)) > 3
        [] id \in {"name_phrase", "name_and", "name_or", "last_resort"} ->
             potentialName(lowerQuery) # Null

\* the comparison of a numeric filter: .filter(column, 'gte' | 'lte', value)
passes(x, filter) ==
  x # NullNum /\ (IF filter.operator = "gt" THEN x >= filter.value ELSE x <= filter.value)

\* one step of the router: the reads it issues and what it yields
step(id, ctx) ==
  LET query == ctx.query
      lowerQuery == toLowerCase(ctx.query)
      defaultLimit == ctx.limit
      fault == ctx.fault
      cands == ctx.store.candidates
      scored == orderByScoreDesc(SelectSeq(cands, LAMBDA c : c.overall_score # NullNum))
  IN  IF ~trigger(id, ctx) THEN Skip
      ELSE CASE id = "top_of" ->
             LET topMatch == Match(topCandidatesOfPattern, query, TRUE)
                 count == IF Group(topMatch, query, 1) # Null THEN parseInt(Group(topMatch, query, 1))
                          ELSE defaultLimit
                 searchTerm == trim(Group(topMatch, query, 2))
                 allCandidates == fetch(fault, id, slice0(scored, 200))
                 matchedCandidates ==
                   SelectSeq(allCandidates, LAMBDA c :
                     \E field \in {skillsText(c), c.experience, c.resume_text} :
                        fieldMatchesTerm(field, normalizeForSearch(searchTerm)))
             IN  Out(fault, <<Rd(id, "overall_score", searchTerm, 200)>>,
                     "top_candidates_for_skill", slice0(matchedCandidates, count))
        [] id = "top_n" ->
             Out(fault, <<Rd(id, "overall_score", Null, defaultLimit)>>,
                 "top_candidates", fetch(fault, id, slice0(scored, defaultLimit)))
        [] id = "all" ->
             Out(fault, <<Rd(id, "", Null, defaultLimit)>>,
                 "all_candidates", fetch(fault, id, slice0(orderByScoreDesc(cands), defaultLimit)))
        [] id = "followup" ->
             LET contextName == extractNameFromHistory(ctx.history)
             IN  Out(fault, <<Rd(id, "name", contextName, 5)>>, "candidate_followup",
                     fetch(fault, id, slice0(SelectSeq(cands, LAMBDA c : ilike(c.name, contextName)), 5)))
        [] id = "email" ->
             LET email == extractEmail(query)
             IN  Out(fault, <<Rd(id, "email", email, 0)>>, "candidate_full_details",
                     fetch(fault, id, SelectSeq(cands, LAMBDA c : c.email = email)))
        [] id = "phone" ->
             LET phone == extractPhone(query)
             IN  Out(fault, <<Rd(id, "phone", phone, 0)>>, "candidate_full_details",
                     fetch(fault, id, SelectSeq(cands, LAMBDA c : ilike(c.phone, phone))))
        [] id = "job_id" ->
             LET jobId == extractJobId(query)
             IN  Out(fault, <<Rd(id, "job_id", jobId, 0)>>, "job_details",
                     fetch(fault, id, SelectSeq(ctx.store.jobs, LAMBDA j : j.job_id = jobId)))
        [] id = "semantic" ->
             semanticOutcome(fault, <<Rd(id, "", query, 10)>>, slice0(ctx.store.similar, 10))
        [] id = "experience" ->
             LET experienceFilter == extractExperience(query)
                 allCandidates == fetch(fault, id, SelectSeq(cands, LAMBDA c : c.experience # Null))
                 filtered ==
                   SelectSeq(allCandidates, LAMBDA c :
                     IF experienceFilter.operator = "gt"
                       THEN parseExperience(c.experience) > 12 * experienceFilter.value
                       ELSE parseExperience(c.experience) < 12 * experienceFilter.value)
             IN  Out(fault, <<Rd(id, "experience", Null, 0)>>, "candidates_by_experience",
                     slice0(filtered, 30))
        [] id = "score" ->
             LET scoreFilter == extractScore(query)
             IN  Out(fault, <<Rd(id, "overall_score", Null, defaultLimit)>>, "candidates_by_score",
                     fetch(fault, id,
                           slice0(SelectSeq(scored, LAMBDA c : passes(c.overall_score, scoreFilter)),
                                  defaultLimit)))
        [] id = "salary" ->
             LET salaryFilter == extractSalary(query)
             IN  Out(fault, <<Rd(id, "expected_salary", Null, defaultLimit)>>, "candidates_by_salary",
                     fetch(fault, id,
                           slice0(SelectSeq(cands, LAMBDA c : passes(c.expected_salary, salaryFilter)),
                                  defaultLimit)))
        [] id = "skill" ->
             LET skill == extractSkill(query)
                 searchNormalized == normalizeForSearch(skill)
                 allCandidates == fetch(fault, id, slice0(cands, 100))
                 matchedCandidates ==
                   SelectSeq(allCandidates, LAMBDA c :
                     \E i \in 1..Len(c.skills) :
                        LET normalized == normalizeForSearch(c.skills[i])
                        IN  \/ includes(normalized, searchNormalized)
                            \/ includes(searchNormalized, normalized)
                            \/ moreThan(calculateSimilarity(normalized, searchNormalized), 7, 10))
             IN  Out(fault, <<Rd(id, "", skill, 100)>>, "candidates_by_skill",
                     slice0(matchedCandidates, defaultLimit))
        [] id = "title_candidates" ->
             LET jobTitle == extractJobTitle(query)
                 allCandidates == fetch(fault, id, slice0(cands, 100))
                 matchedCandidates ==
                   SelectSeq(allCandidates, LAMBDA c :
                     \E field \in {skillsText(c), c.experience, c.resume_text, c.name} :
                        fieldMatchesTerm(field, normalizeForSearch(jobTitle)))
             IN  Out(fault, <<Rd(id, "", jobTitle, 100)>>, "candidates_by_job_title",
                     slice0(matchedCandidates, defaultLimit))
        [] id = "title_jobs" ->
             LET jobTitle == extractJobTitle(query)
                 allJobs == fetch(fault, id, slice0(ctx.store.jobs, 50))
                 matchedJobs ==
                   SelectSeq(allJobs, LAMBDA j :
                     \E field \in {j.title, skillsText(j), j.description} :
                        includes(normalizeForSearch(field), normalizeForSearch(jobTitle)))
             IN  Out(fault, <<Rd(id, "", jobTitle, 50)>>, "jobs_by_title",
                     slice0(matchedJobs, defaultLimit))
        [] id = "status" ->
             LET key == matchedStatusKey(lowerQuery)
                 column == statusColumn(key)
                 statusValue == statusValues[key]
             IN  Out(fault, <<Rd(id, column, statusValue, defaultLimit)>>, "candidates_by_status",
                     fetch(fault, id,
                           slice0(SelectSeq(cands, LAMBDA c :
                                    IF column = "status" THEN c.status = statusValue
                                    ELSE c.interview_result = statusValue),
                                  defaultLimit)))
        [] id = "location" ->
             LET loc == matchedLocation(lowerQuery)
             IN  Out(fault, <<Rd(id, "location", loc, defaultLimit)>>, "candidates_by_location",
                     fetch(fault, id,
                           slice0(SelectSeq(cands, LAMBDA c : ilike(c.location, loc)), defaultLimit)))
        [] id = "client" ->
             LET wantsActive == includes(lowerQuery, <<"a","c","t","i","v","e">>)
                 wantsAll == includes(lowerQuery, <<"a","l","l">>) \/ includes(lowerQuery, <<"e","v","e","r","y">>)
                 clientLimit == IF wantsAll THEN 100 ELSE defaultLimit
                 clients ==
                   fetch(fault, "client",
                         slice0(SelectSeq(ctx.store.clients, LAMBDA k :
                                  wantsActive => k.status = <<"A","c","t","i","v","e">>),
                                clientLimit))
             IN  Out(fault,
                     <<Rd("client", IF wantsActive THEN "status" ELSE "",
                          IF wantsActive THEN <<"A","c","t","i","v","e">> ELSE Null, clientLimit),
                       Rd("contacts", "", Null, clientLimit)>>,
                     "clients_and_contacts", clients)
        [] id = "job" ->
             LET activeOnly == includes(lowerQuery, <<"a","c","t","i","v","e">>) \/ includes(lowerQuery, <<"o","p","e","n">>)
             IN  Out(fault,
                     <<Rd(id, IF activeOnly THEN "status" ELSE "",
                          IF activeOnly THEN <<"A","c","t","i","v","e">> ELSE Null, defaultLimit)>>,
                     "jobs",
                     fetch(fault, id,
                           slice0(SelectSeq(ctx.store.jobs, LAMBDA j :
                                    activeOnly => j.status = <<"A","c","t","i","v","e">>),
                                  defaultLimit)))
        [] id = "status_types" ->
             Out(fault, <<Rd(id, "", Null, 0)>>, "job_statuses", fetch(fault, id, ctx.store.statuses))
        [] id = "catch_all" ->
             LET searchTerms == catchAllTerms(lowerQuery)
                 allCandidates == fetch(fault, id, slice0(cands, 100))
                 matchedCandidates ==
                   SelectSeq(allCandidates, LAMBDA c :
                     \E field \in {skillsText(c), c.experience, c.resume_text} :
                        fieldMatchesWords(field, normalizeForSearch(searchTerms)))
                 sortedResults == orderDesc(matchedCandidates, scoreOrZero)
             IN  Out(fault, <<Rd(id, "", searchTerms, 100)>>, "candidates_broad_search",
                     slice0(sortedResults, defaultLimit))
        [] id = "name_phrase" ->
             LET name == potentialName(lowerQuery)
             IN  Out(fault, <<Rd(id, "name", name, 0)>>, "candidate_by_name_phrase",
                     fetch(fault, id, SelectSeq(cands, LAMBDA c : ilike(c.name, name))))
        [] id = "name_and" ->
             LET name == potentialName(lowerQuery)
                 keywords == split(name)
             IN  Out(fault, <<Rd(id, "name", name, 10)>>, "candidate_by_name_keywords_and",
                     fetch(fault, id,
                           slice0(SelectSeq(cands, LAMBDA c :
                                    \A i \in 1..Len(keywords) : ilike(c.name, keywords[i])), 10)))
        [] id = "name_or" ->
             LET name == potentialName(lowerQuery)
                 keywords == split(name)
             IN  Out(fault, <<Rd(id, "name", name, 10)>>, "candidate_by_name_keywords_or",
                     fetch(fault, id,
                           slice0(SelectSeq(cands, LAMBDA c :
                                    \E i \in 1..Len(keywords) : ilike(c.name, keywords[i])), 10)))
        [] id = "last_resort" ->
             LET name == potentialName(lowerQuery)
             IN  Out(fault, <<Rd(id, "", name, defaultLimit)>>, "candidates_broad_search",
                     fetch(fault, id,
                           slice0(SelectSeq(cands, LAMBDA c :
                                    \/ ilike(skillsText(c), name)
                                    \/ ilike(c.experience, name)
                                    \/ ilike(c.resume_text, name)),
                                  defaultLimit)))

(***************************************************************************)
(* smartSearch of the second chat service.                                 *)
(***************************************************************************)
skillKeywords2 ==
  <<<<"j","a","v","a","s","c","r","i","p","t">>, <<"t","y","p","e","s","c","r","i","p","t">>, <<"r","e","a","c","t">>, <<"n","o","d","e">>, <<"p","y","t","h","o","n">>, <<"j","a","v","a">>, <<"d","i","a","l","o","g","f","l","o","w">>,
    <<"p","l","a","y","w","r","i","g","h","t">>, <<"a","w","s">>, <<"a","z","u","r","e">>, <<"g","c","p">>, <<"s","e","r","v","i","c","e","n","o","w">>>>

\* skillKeywords.find(skill => lowerQuery.includes(skill)) || null
extractSkill2(query) ==
  LET hits == {i \in 1..Len(skillKeywords2) : includes(toLowerCase(query), skillKeywords2[i])}
  IN  IF hits = {} THEN Null ELSE skillKeywords2[MinOf(hits)]

statusKeys2 == <<"screening", "selected", "rejected", "interview">>

matchedStatusKey2(lowerQuery) ==
  LET hits == {i \in 1..Len(statusKeys2) : someIncluded(statusKeywords[statusKeys2[i]], lowerQuery)}
  IN  IF hits = {} THEN "" ELSE statusKeys2[MinOf(hits)]

\* matchedStatusKey === 'screening' ? 'Screening' : matchedStatusKey
statusValues2 ==
  [screening |-> <<"S","c","r","e","e","n","i","n","g">>, selected |-> <<"s","e","l","e","c","t","e","d">>, rejected |-> <<"r","e","j","e","c","t","e","d">>,
   interview |-> <<"i","n","t","e","r","v","i","e","w">>]

locations2 ==
  <<<<"b","a","n","g","a","l","o","r","e">>, <<"b","e","n","g","a","l","u","r","u">>, <<"c","h","e","n","n","a","i">>, <<"h","y","d","e","r","a","b","a","d">>, <<"p","u","n","e">>, <<"m","u","m","b","a","i">>, <<"d","e","l","h","i">>>>

matchedLocation2(lowerQuery) ==
  LET hits == {i \in 1..Len(locations2) : includes(lowerQuery, locations2[i])}
  IN  IF hits = {} THEN Null ELSE locations2[MinOf(hits)]

keywordStopWords ==
  <<<<"c","a","n">>, <<"g","e","t">>, <<"d","e","t","a","i","l","s">>, <<"o","f">>, <<"a","b","o","u","t">>, <<"s","h","o","w">>, <<"f","i","n","d">>, <<"t","h","e">>, <<"l","i","s","t">>, <<"a","l","l">>,
    <<"a","r","e">>, <<"w","h","o">>>>

\* the keywords of the combined search
searchKeywords(lowerQuery) ==
  SelectSeq(split(lowerQuery), LAMBDA w : Len(w) > 3 /\ w \notin Range(keywordStopWords))

\* array.reverse()
reverse(seq) == [i \in 1..Len(seq) |-> seq[Len(seq) + 1 - i]]

\* the first turn of the reversed history that is an assistant turn holding ** or Email,
\* as a sequence of at most one turn
lastCandidate(conversationHistory) ==
  slice0(SelectSeq(reverse(conversationHistory), LAMBDA m :
           m.role = "assistant" /\ (includes(m.content, <<"*","*">>) \/ includes(m.content, <<"E","m","a","i","l">>))), 1)

\* the shortest text between two ** of the content: the first ** and the next one after it
firstBold(content) ==
  LET starts == {i \in 1..Len(content) - 1 : content[i] = "*" /\ content[i + 1] = "*"}
      open == MinOf(starts)
      closes == {i \in starts : i >= open + 2}
  IN  IF starts = {} \/ closes = {} THEN [found |-> FALSE, name |-> Null]
      ELSE [found |-> TRUE, name |-> SubSeq(content, open + 2, MinOf(closes) - 1)]

\* the name the date queries take from the history
dateName(conversationHistory) ==
  LET turn == lastCandidate(conversationHistory)
  IN  IF Len(turn) = 0 THEN [found |-> FALSE, name |-> Null] ELSE firstBold(turn[1].content)

\* text ILIKE %k1%k2%...%: the keywords occur in the text in this order, one after the other
RECURSIVE ilikeSeq(_, _)
ilikeSeq(text, keywords) ==
  IF Len(keywords) = 0 THEN TRUE
  ELSE LET k == toLowerCase(keywords[1])
           t == toLowerCase(text)
           at == {i \in 1..(Len(t) - Len(k) + 1) : SubSeq(t, i, i + Len(k) - 1) = k}
       IN  at # {} /\ ilikeSeq(SubSeq(t, MinOf(at) + Len(k), Len(t)), Tail(keywords))

\* applied_date, the key of the recent applications
appliedKey(c) == c.applied_date

StepOrder2 ==
  <<"email", "phone", "experience", "score", "salary", "skill", "date_name", "date_recent",
    "status", "location", "client", "job", "status_types", "keyword">>

\* whether the trigger of a step of the second service matches
trigger2(id, ctx) ==
  LET query == ctx.query
      lowerQuery == toLowerCase(ctx.query)
      isDate == includes(lowerQuery, <<"a","p","p","l","i","e","d">>) \/ includes(lowerQuery, <<"d","a","t","e">>)
  IN  CASE id = "email" -> extractEmail(query) # Null
        [] id = "phone" -> extractPhone(query) # Null
        [] id = "experience" -> extractExperience(query).found
        [] id = "score" -> extractScore(query).found
        [] id = "salary" -> extractSalary(query).found
        [] id = "skill" -> extractSkill2(query) # Null
        [] id = "date_name" -> isDate /\ dateName(ctx.history).found
        [] id = "date_recent" -> isDate
        [] id = "status" -> matchedStatusKey2(lowerQuery) # ""
        [] id = "location" -> matchedLocation2(lowerQuery) # Null
        [] id = "client" -> includes(lowerQuery, <<"c","l","i","e","n","t">>)
        [] id = "job" -> someIncluded(jobKeywords, lowerQuery) /\ ~includes(lowerQuery, <<"h","o","w"," ","m","a","n","y">>)
        [] id = "status_types" ->
             /\ includes(lowerQuery, <<"s","t","a","t","u","s">>)
             /\ \/ includes(lowerQuery, <<"t","y","p","e">>)
                \/ includes(lowerQuery, <<"l","i","s","t">>)
                \/ includes(lowerQuery, <<"a","v","a","i","l","a","b","l","e">>)
        [] id = "keyword" -> Len(searchKeywords(lowerQuery)) > 0

\* one step of the router of the second service
step2(id, ctx) ==
  LET query == ctx.query
      lowerQuery == toLowerCase(ctx.query)
      fault == ctx.fault
      cands == ctx.store.candidates
  IN  IF ~trigger2(id, ctx) THEN Skip
      ELSE CASE id = "email" ->
             LET email == extractEmail(query)
                 data == fetch(fault, id, SelectSeq(cands, LAMBDA c : c.email = email))
             IN  Out(fault,
                     <<Rd(id, "email", email, 0)>>
                       \o (IF Len(data) > 0 THEN <<Rd("email_jobs", "id", Null, 0)>> ELSE <<>>),
                     "candidate_full_details", data)
        [] id = "phone" ->
             LET phone == extractPhone(query)
             IN  Out(fault, <<Rd(id, "phone", phone, 0)>>, "candidate_full_details",
                     fetch(fault, id, SelectSeq(cands, LAMBDA c : ilike(c.phone, phone))))
        [] id = "experience" ->
             LET experienceFilter == extractExperience(query)
                 allCandidates == fetch(fault, id, SelectSeq(cands, LAMBDA c : c.experience # Null))
                 filtered ==
                   SelectSeq(allCandidates, LAMBDA c :
                     IF experienceFilter.operator = "gt"
                       THEN parseExperience(c.experience) > 12 * experienceFilter.value
                       ELSE parseExperience(c.experience) < 12 * experienceFilter.value)
             IN  Out(fault, <<Rd(id, "experience", Null, 0)>>, "candidates_by_experience",
                     slice0(filtered, 30))
        [] id = "score" ->
             LET scoreFilter == extractScore(query)
             IN  Out(fault, <<Rd(id, "overall_score", Null, 20)>>, "candidates_by_score",
                     fetch(fault, id,
                           slice0(SelectSeq(orderByScoreDesc(cands), LAMBDA c :
                                    passes(c.overall_score, scoreFilter)), 20)))
        [] id = "salary" ->
             LET salaryFilter == extractSalary(query)
             IN  Out(fault, <<Rd(id, "expected_salary", Null, 20)>>, "candidates_by_salary",
                     fetch(fault, id,
                           slice0(SelectSeq(cands, LAMBDA c : passes(c.expected_salary, salaryFilter)),
                                  20)))
        [] id = "skill" ->
             LET skill == extractSkill2(query)
             IN  Out(fault, <<Rd(id, "skills", skill, 20)>>, "candidates_by_skill",
                     fetch(fault, id,
                           slice0(SelectSeq(cands, LAMBDA c : ilike(skillsText(c), skill)), 20)))
        [] id = "date_name" ->
             LET name == dateName(ctx.history).name
             IN  Out(fault, <<Rd(id, "name", name, 1)>>, "candidate_full_details",
                     fetch(fault, id, slice0(SelectSeq(cands, LAMBDA c : ilike(c.name, name)), 1)))
        [] id = "date_recent" ->
             Out(fault, <<Rd(id, "applied_date", Null, 10)>>, "recent_applications",
                 fetch(fault, id, slice0(orderDesc(cands, appliedKey), 10)))
        [] id = "status" ->
             LET key == matchedStatusKey2(lowerQuery)
                 column == IF key = "screening" THEN "status" ELSE "interview_result"
                 statusValue == statusValues2[key]
             IN  Out(fault, <<Rd(id, column, statusValue, 20)>>, "candidates_by_status",
                     fetch(fault, id,
                           slice0(SelectSeq(cands, LAMBDA c :
                                    IF column = "status" THEN c.status = statusValue
                                    ELSE c.interview_result = statusValue), 20)))
        [] id = "location" ->
             LET loc == matchedLocation2(lowerQuery)
             IN  Out(fault, <<Rd(id, "location", loc, 20)>>, "candidates_by_location",
                     fetch(fault, id, slice0(SelectSeq(cands, LAMBDA c : ilike(c.location, loc)), 20)))
        [] id = "client" ->
             Out(fault, <<Rd("client", "", Null, 20), Rd("contacts", "", Null, 20)>>,
                 "clients_and_contacts", fetch(fault, "client", slice0(ctx.store.clients, 20)))
        [] id = "job" ->
             Out(fault, <<Rd(id, "", Null, 20)>>, "jobs", fetch(fault, id, slice0(ctx.store.jobs, 20)))
        [] id = "status_types" ->
             Out(fault, <<Rd(id, "", Null, 0)>>, "job_statuses", fetch(fault, id, ctx.store.statuses))
        [] id = "keyword" ->
             LET keywords == searchKeywords(lowerQuery)
                 candidateRes ==
                   fetch(fault, "keyword",
                         slice0(SelectSeq(cands, LAMBDA c :
                                  \E i \in 1..Len(keywords) :
                                     \/ ilike(c.name, keywords[i])
                                     \/ ilike(skillsText(c), keywords[i])
                                     \/ ilike(c.location, keywords[i])), 10))
                 jobRes ==
                   fetch(fault, "keyword_jobs",
                         slice0(SelectSeq(ctx.store.jobs, LAMBDA j : ilikeSeq(j.title, keywords)), 5))
                 clientRes ==
                   fetch(fault, "keyword_clients",
                         slice0(SelectSeq(ctx.store.clients, LAMBDA k :
                                  ilikeSeq(k.client_name, keywords)), 5))
             IN  Out(fault,
                     <<Rd("keyword", "", join(keywords, <<" ">>), 10),
                       Rd("keyword_jobs", "job_title", join(keywords, <<"%">>), 5),
                       Rd("keyword_clients", "client_name", join(keywords, <<"%">>), 5)>>,
                     "combined_keyword_search", candidateRes \o jobRes \o clientRes)

(***************************************************************************)
(* Both routers walk their steps in order: the first step that yields rows *)
(* returns, a read that throws ends the search with the error result, and  *)
(* the no_results marker is returned when no step is left.                 *)
(***************************************************************************)
stepOf(impl, id, ctx) == IF impl = 1 THEN step(id, ctx) ELSE step2(id, ctx)

\* what each step of the list would do with the query; no step changes the store, so a
\* step that is never reached is simply not looked at
outcomes(impl, order, ctx) == [k \in 1..Len(order) |-> stepOf(impl, order[k], ctx)]

\* a walk without the early returns: every step runs and the last one that yields wins
RECURSIVE walk_lastMatch(_, _, _)
walk_lastMatch(outs, k, reads) ==
  IF k > Len(outs) THEN [type |-> "no_results", rows |-> <<>>, reads |-> reads]
  ELSE LET o == outs[k]
           rest == walk_lastMatch(outs, k + 1, reads \o o.reads)
       IN  IF o.thrown THEN [type |-> "error", rows |-> <<>>, reads |-> reads \o o.reads]
           ELSE IF o.hit /\ rest.type = "no_results"
             THEN [type |-> o.type, rows |-> o.rows, reads |-> rest.reads]
           ELSE rest

\* the walk down the steps from step k on: a step that throws ends the search in the
\* catch clause, a step that yields rows returns them, any other step falls through
RECURSIVE walk(_, _, _)
walk(outs, k, reads) ==
  IF k > Len(outs) THEN [type |-> "no_results", rows |-> <<>>, reads |-> reads]
  ELSE LET o == outs[k]
       IN  IF o.thrown THEN [type |-> "error", rows |-> <<>>, reads |-> reads \o o.reads]
           ELSE IF o.hit THEN [type |-> o.type, rows |-> o.rows, reads |-> reads \o o.reads]
           ELSE walk(outs, k + 1, reads \o o.reads)

\* the body of smartSearch: the steps in their order
runSteps(impl, order, ctx) == walk(outcomes(impl, order, ctx), 1, <<>>)

\* smartSearch(query, conversationHistory, requestedLimit) of the first service, against
\* a store under a fault plan
smartSearch(query, conversationHistory, requestedLimit, store, fault) ==
  [impl |-> 1, history |-> conversationHistory] @@
  runSteps(1, StepOrder,
           [query |-> query, history |-> conversationHistory,
            limit |-> IF requestedLimit # NoCount THEN requestedLimit ELSE 20,
            store |-> store, fault |-> fault])

\* the date queries were entered: they reverse the caller's history in place
reversesHistory(result) ==
  \E i \in 1..Len(result.reads) : result.reads[i].id \in {"date_name", "date_recent"}

\* the result of the second service, with the history as the call leaves it
withHistory(conversationHistory, result) ==
  [impl |-> 2,
   history |-> IF reversesHistory(result) THEN reverse(conversationHistory)
               ELSE conversationHistory] @@ result

\* smartSearch(query, conversationHistory) of the second service
smartSearch2(query, conversationHistory, store, fault) ==
  withHistory(conversationHistory,
              runSteps(2, StepOrder2,
                       [query |-> query, history |-> conversationHistory, limit |-> 20,
                        store |-> store, fault |-> fault]))

(***************************************************************************)
(* sendMessage of the two chat services and the response cache.            *)
(*                                                                         *)
(* A call is recorded with the operations it performs, in order:           *)
(* classifyQuery, extractRequestedCount, getStats, the reads of the        *)
(* similar-candidates branch, cache_get, smartSearch, generate (a call of  *)
(* the generation API), cache_set.  Times are in milliseconds.             *)
(***************************************************************************)
CACHE_TTL == 5 * 60 * 1000

CACHE_TTL2 == 10 * 60 * 1000

ttlOf(service) == IF service = 1 THEN CACHE_TTL ELSE CACHE_TTL2

\* message.toLowerCase().trim(), the key of the cache
cacheKeyOf(message) == trim(toLowerCase(message))

\* the entry is within its time to live, as the comparison of an entry's age with the window is
\* made less strict by one millisecond
cacheFresh_inclusive(cached, t, ttl) == t - cached.timestamp <= ttl

\* Date.now() - cached.timestamp < CACHE_TTL
cacheFresh(cached, t, ttl) == t - cached.timestamp < ttl

\* the job description test of the first service
isJD(message) ==
  LET lowerMessage == cacheKeyOf(message)
  IN  /\ Len(message) > 250
      /\ \/ includes(lowerMessage, <<"r","e","s","p","o","n","s","i","b","i","l","i","t","i","e","s">>)
         \/ includes(lowerMessage, <<"r","e","q","u","i","r","e","m","e","n","t","s">>)
         \/ (includes(lowerMessage, <<"s","k","i","l","l","s">>) /\ includes(lowerMessage, <<"e","x","p","e","r","i","e","n","c","e">>))

\* the job description test of the second service
isJD2(message) ==
  /\ Len(message) > 250
  /\ \/ includes(toLowerCase(message), <<"r","e","s","p","o","n","s","i","b","i","l","i","t","i","e","s">>)
     \/ includes(toLowerCase(message), <<"s","k","i","l","l","s">>)
     \/ includes(toLowerCase(message), <<"e","x","p","e","r","i","e","n","c","e">>)

isAnalytics(lowerMessage) ==
  \/ includes(lowerMessage, <<"r","e","p","o","r","t">>)
  \/ includes(lowerMessage, <<"a","n","a","l","y","t","i","c","s">>)
  \/ includes(lowerMessage, <<"d","i","s","t","r","i","b","u","t","i","o","n">>)
  \/ includes(lowerMessage, <<"p","i","p","e","l","i","n","e"," ","o","v","e","r","v","i","e","w">>)

isSimilarQuery(lowerMessage) ==
  includes(lowerMessage, <<"s","i","m","i","l","a","r"," ","c","a","n","d","i","d","a","t","e","s"," ","t","o">>) \/ includes(lowerMessage, <<"c","a","n","d","i","d","a","t","e","s"," ","l","i","k","e">>)

\* .single(): the row when exactly one row matches, as a sequence of at most one row
single(rows) == IF Len(rows) = 1 THEN rows ELSE <<>>

\* EmbeddingService.findSimilarCandidates(candidateId, 5)
findSimilarCandidates(store, candidateId) ==
  slice0(SelectSeq(store.similar, LAMBDA c : c.id # candidateId), 5)

\* the similar-candidates branch: the operations it performs, and the candidates it returns
similarBranch(message, store) ==
  LET candidateName == extractNameFromQuery(message)
      candidate == single(SelectSeq(store.candidates, LAMBDA c : ilike(c.name, candidateName)))
      similar == IF Len(candidate) = 1 THEN findSimilarCandidates(store, candidate[1].id) ELSE <<>>
  IN  IF ~isSimilarQuery(cacheKeyOf(message)) THEN [ops |-> <<>>, similar |-> <<>>]
      ELSE IF candidateName = Null THEN [ops |-> <<>>, similar |-> <<>>]
      ELSE IF Len(candidate) = 0 THEN [ops |-> <<"read_candidate">>, similar |-> <<>>]
      ELSE [ops |-> <<"read_candidate", "findSimilarCandidates">>, similar |-> ids(similar)]

\* the cache is looked up after a search that is made first
lookupOps_searchFirst(classification) ==
  IF classification.type = "recruitment" THEN <<"smartSearch", "cache_get">> ELSE <<>>

\* the first service looks the cache up for recruitment queries only
lookupOps(classification) ==
  IF classification.type = "recruitment" THEN <<"cache_get">> ELSE <<>>

\* the condition of a cache hit of the first service
cacheHit(classification, cacheKey, conversationHistory, cache, t) ==
  /\ classification.type = "recruitment"
  /\ cacheKey \in DOMAIN cache
  /\ cacheFresh(cache[cacheKey], t, CACHE_TTL)
  /\ Len(conversationHistory) = 0

\* the condition of a cache hit of the second service
cacheHit2(cacheKey, cache, t) ==
  cacheKey \in DOMAIN cache /\ cacheFresh(cache[cacheKey], t, CACHE_TTL2)

\* an answer is never stored
cacheWrite_never(classification, conversationHistory) == FALSE

\* the first service stores the answers of recruitment queries without history
cacheWrite(classification, conversationHistory) ==
  classification.type = "recruitment" /\ Len(conversationHistory) = 0

\* what sendMessage of the first service works out from the message and the store
\* before it looks at the cache
route(message, store) ==
  [lowerMessage |-> cacheKeyOf(message),
   classification |-> classifyQuery(message),
   isJD |-> isJD(message),
   isAnalytics |-> isAnalytics(cacheKeyOf(message)),
   branch |-> similarBranch(message, store)]

\* what sendMessage of the second service works out from the message
route2(message) ==
  [cacheKey |-> cacheKeyOf(message), isJD |-> isJD2(message)]

\* sendMessage of the first service up to its first return or to the search: the path
\* the call takes, the operations performed so far and, on a hit, the reply
sendMessage_start(r, conversationHistory, cache, t) ==
  LET before == <<"classifyQuery", "extractRequestedCount", "getStats">>
      hit == cacheHit(r.classification, r.lowerMessage, conversationHistory, cache, t)
      path == IF r.classification.type = "greeting" THEN "greeting"
              ELSE IF r.classification.type = "unclear" THEN "unclear"
              ELSE IF r.isJD THEN "jd"
              ELSE IF r.isAnalytics THEN "analytics"
              ELSE IF Len(r.branch.similar) > 0 THEN "similar"
              ELSE IF hit THEN "hit"
              ELSE "generate"
  IN  [path |-> path,
       type |-> r.classification.type,
       key |-> r.lowerMessage,
       ops |-> IF path \in {"greeting", "unclear", "jd", "analytics"} THEN before
               ELSE IF path = "similar" THEN before \o r.branch.ops
               ELSE before \o r.branch.ops \o lookupOps(r.classification),
       reply |-> IF path = "hit" THEN cache[r.lowerMessage].response ELSE ""]

\* sendMessage of the second service up to its first return or to the search
sendMessage2_start(r, conversationHistory, cache, t) ==
  LET path == IF r.isJD THEN "jd"
              ELSE IF cacheHit2(r.cacheKey, cache, t) THEN "hit"
              ELSE "generate"
  IN  [path |-> path,
       type |-> "",
       key |-> r.cacheKey,
       ops |-> IF path = "jd" THEN <<>> ELSE <<"cache_get">>,
       reply |-> IF path = "hit" THEN cache[r.cacheKey].response ELSE ""]

\* the answers of the generation API
Answers == {"answer_1", "answer_2"}

\* what the generation API does with a request: it answers, or reports a non-success status
GenOutcomes == Answers \cup {"fail"}

\* the operations of getAnalyticsReport
analyticsOps(userQuery) ==
  LET topJobs == includes(userQuery, <<"t","o","p"," ","j","o","b","s">>) \/ includes(userQuery, <<"m","o","s","t"," ","a","p","p","l","i","c","a","t","i","o","n","s">>)
      pipeline == includes(userQuery, <<"p","i","p","e","l","i","n","e">>) \/ includes(userQuery, <<"c","a","n","d","i","d","a","t","e"," ","d","i","s","t","r","i","b","u","t","i","o","n">>)
  IN  IF ~topJobs /\ ~pipeline THEN <<"rpc", "rpc", "generate">>
      ELSE (IF topJobs THEN <<"rpc">> ELSE <<>>) \o (IF pipeline THEN <<"rpc">> ELSE <<>>)
             \o <<"generate">>

\* what can happen to a job description in getRankedCandidatesFromJD: the vector match
\* finds candidates, the extraction request fails, the skills extracted match no
\* candidate, or the candidates found are ranked by a second request
JDModes(store) ==
  {"rag", "extract_fail", "none_found"} \cup (IF Len(store.candidates) > 0 THEN {"ranked"} ELSE {})

\* the second service has no vector match
JDModes2(store) == JDModes(store) \ {"rag"}

\* getRankedCandidatesFromJD of the first service
getRankedCandidatesFromJD(mode, out) ==
  CASE mode = "rag" -> [ops |-> <<"matchCandidatesToJD">>, reply |-> "jd_matches", failed |-> FALSE]
    [] mode = "extract_fail" ->
         [ops |-> <<"matchCandidatesToJD", "generate">>,
          reply |-> "Error analyzing job description: AI extraction failed", failed |-> TRUE]
    [] mode = "none_found" ->
         [ops |-> <<"matchCandidatesToJD", "generate", "read_candidates">>,
          reply |-> "No matching candidates found", failed |-> FALSE]
    [] mode = "ranked" ->
         [ops |-> <<"matchCandidatesToJD", "generate", "read_candidates", "generate">>,
          reply |-> IF out = "fail" THEN "Error analyzing job description: AI ranking failed" ELSE out,
          failed |-> out = "fail"]

\* getRankedCandidatesFromJD of the second service
getRankedCandidatesFromJD2(mode, out) ==
  CASE mode = "extract_fail" ->
         [ops |-> <<"generate">>,
          reply |-> "I encountered an error while analyzing the job description: AI extraction failed",
          failed |-> TRUE]
    [] mode = "none_found" ->
         [ops |-> <<"generate", "read_candidates">>, reply |-> "No matching candidates found", failed |-> FALSE]
    [] mode = "ranked" ->
         [ops |-> <<"generate", "read_candidates", "generate">>,
          reply |-> IF out = "fail"
                      THEN "I encountered an error while analyzing the job description: AI ranking failed"
                    ELSE out,
          failed |-> out = "fail"]

\* an answer that is returned even when the request did not succeed
answerOrThrow_returnsAnyway(out, error) == [status |-> "returned", reply |-> IF out = "fail" THEN error ELSE out]

\* if (!response.ok) throw new Error(...); otherwise the answer is returned
answerOrThrow(out, error) ==
  [status |-> IF out = "fail" THEN "thrown" ELSE "returned",
   reply |-> IF out = "fail" THEN error ELSE out]

\* the greetings of the first service
Greetings == {"greeting_1", "greeting_2", "greeting_3"}

\* the rest of a call of the first service that was not answered from the cache: the
\* operations, the reply, whether the call returns or throws, and whether the answer
\* is stored.  out is what the generation API does with the last request of the call,
\* mode what happens to a job description, pick the greeting chosen at random.
sendMessage_finish(call, out, mode, pick) ==
  LET classification == [type |-> call.type]
      stores == out # "fail" /\ cacheWrite(classification, call.history)
      jd == getRankedCandidatesFromJD(mode, out)
  IN  CASE call.path = "greeting" ->
             [ops |-> <<>>, status |-> "returned", reply |-> pick, stored |-> FALSE,
              failed |-> FALSE]
        [] call.path = "unclear" ->
             [ops |-> <<>>, status |-> "returned", reply |-> "clarify", stored |-> FALSE,
              failed |-> FALSE]
        [] call.path = "similar" ->
             [ops |-> <<>>, status |-> "returned", reply |-> "similar_candidates", stored |-> FALSE,
              failed |-> FALSE]
        [] call.path = "analytics" ->
             [ops |-> analyticsOps(call.key), status |-> "returned",
              reply |-> IF out = "fail"
                          THEN "Error generating report: Report generation failed. You may need to create SQL functions in Supabase."
                        ELSE out,
              stored |-> FALSE, failed |-> out = "fail"]
        [] call.path = "jd" ->
             [ops |-> jd.ops, status |-> "returned", reply |-> jd.reply, stored |-> FALSE,
              failed |-> jd.failed]
        [] call.path = "generate" ->
             [ops |-> (IF call.type = "recruitment" THEN <<"smartSearch">> ELSE <<>>)
                        \o <<"generate">> \o (IF stores THEN <<"cache_set">> ELSE <<>>),
              stored |-> stores, failed |-> out = "fail"]
               @@ answerOrThrow(out, "OpenAI: upstream message")

\* the rest of a call of the second service that was not answered from the cache
sendMessage2_finish(call, out, mode) ==
  LET jd == getRankedCandidatesFromJD2(mode, out)
  IN  CASE call.path = "jd" ->
             [ops |-> jd.ops, status |-> "returned", reply |-> jd.reply, stored |-> FALSE,
              failed |-> jd.failed]
        [] call.path = "generate" ->
             [ops |-> <<"getStats", "smartSearch", "generate">>
                        \o (IF out # "fail" THEN <<"cache_set">> ELSE <<>>),
              stored |-> out # "fail", failed |-> out = "fail"]
               @@ answerOrThrow(out, "OpenAI error: upstream message")

(***************************************************************************)
(* State.                                                                  *)
(***************************************************************************)
VARIABLES
  cMessage,     \* classifyQuery: the message it is called on
  cResults,     \* classifyQuery: the results of the successive calls on cMessage
  sArgs,        \* smartSearch: the query, the history, the store and the fault plan
  sResult,      \* smartSearch: <<>> before the call, then the result of the call
  service,      \* sendMessage: which of the two services of the file is in use (1 or 2)
  store,        \* sendMessage: the tables
  message,      \* sendMessage: the message the user sends, and sends again
  routed,       \* sendMessage: what the service works out from the message alone
  responseCache, \* the response cache: cache key -> [response, timestamp]
  now,          \* Date.now()
  inflight,     \* the calls of sendMessage that have not returned yet
  calls,        \* the calls of sendMessage that have returned or thrown, in that order
  clears,       \* how many times clearCache was called
  ticks,        \* how many times the clock advanced
  fnArgs,       \* a helper function examined alone: its arguments
  fnResult,     \* a helper function examined alone: <<>>, then its result
  version,      \* the chat component: which of the two versions of the file is mounted
  ui,           \* the chat component: messages, input, loading, showSuggestions, quickReplies
  rendered,     \* the chat component: the state of the last render, which the handlers see
  requests,     \* the chat component: its calls of sendMessage that have not settled
  sends,        \* the chat component: the sends handleSend accepted, with their outcome
  chatClears,   \* the chat component: how many times the chat was cleared
  embeddings,   \* the embedding service: the stored embedding of each candidate
  job           \* the embedding service: the call in progress, its position and its counts

vars == <<cMessage, cResults, sArgs, sResult,
          service, store, message, routed, responseCache, now, inflight, calls, clears, ticks,
          fnArgs, fnResult, version, ui, rendered, requests, sends, chatClears,
          embeddings, job>>

classifyVars == <<cMessage, cResults>>

searchVars == <<sArgs, sResult>>


sendVars == <<service, store, message, routed, responseCache, now, inflight, calls, clears, ticks>>

\* the state of the service while classifyQuery or smartSearch is examined alone
NoSend ==
  /\ service = 0
  /\ store = <<>>
  /\ message = <<>>
  /\ routed = <<>>
  /\ responseCache = <<>>
  /\ now = 0
  /\ inflight = <<>>
  /\ calls = <<>>
  /\ clears = 0
  /\ ticks = 0

fnVars == <<fnArgs, fnResult>>

chatVars == <<version, ui, rendered, requests, sends, chatClears>>

\* the state of the other parts while one part is examined alone
NoClassify == cMessage = <<>> /\ cResults = <<>>

NoSearch == sArgs = <<>> /\ sResult = <<>>

NoFn == fnArgs = <<>> /\ fnResult = <<>>

NoChat ==
  /\ version = 0
  /\ ui = <<>>
  /\ rendered = <<>>
  /\ requests = <<>>
  /\ sends = <<>>
  /\ chatClears = 0

embedVars == <<embeddings, job>>

NoEmbed == embeddings = <<>> /\ job = <<>>

\* the variables each specification leaves alone
besidesClassify == <<searchVars, sendVars, fnVars, chatVars, embedVars>>

besidesSearch == <<classifyVars, sendVars, fnVars, chatVars, embedVars>>

besidesSend == <<classifyVars, searchVars, fnVars, chatVars, embedVars>>

besidesFn == <<classifyVars, searchVars, sendVars, chatVars, embedVars>>

\* the chat component calls sendMessage and clearCache: the response cache is part of
\* what its handlers change
besidesChat == <<classifyVars, searchVars, fnVars, embedVars,
                 service, store, message, routed, now, inflight, calls, clears, ticks>>

besidesEmbed == <<classifyVars, searchVars, sendVars, fnVars, chatVars>>


(***************************************************************************)
(* The chat component.  Its state is the React state of the component; a   *)
(* handler reads the values of the render it was created in.  The updates  *)
(* a handler makes during a key press or a click are committed before the  *)
(* next event; those made after the await are committed by a later render. *)
(***************************************************************************)
\* the message the component starts with and returns to when the chat is cleared
Welcome == <<[role |-> "assistant", content |-> <<"welcome">>]>>

\* the content of the message shown when sendMessage throws
apology(v, errorText) ==
  <<"Sorry, I encountered an error: ", errorText,
    IF v = 1 THEN ". Please check your API keys and database connection."
    ELSE ". Please check your API keys and try again.">>

\* what a call of sendMessage ends with: a text, a text with suggestions (the first
\* version only), or an error
Outcomes(v) ==
  {[kind |-> "text", text |-> "answer", suggestions |-> <<>>, message |-> ""],
   [kind |-> "error", text |-> "", suggestions |-> <<>>, message |-> "OpenAI: upstream message"]}
    \cup (IF v = 1
            THEN {[kind |-> "suggestions", text |-> "answer", suggestions |-> <<<<"m","o","r","e">>>>,
                   message |-> ""]}
          ELSE {})

\* the ways of sending: the Enter key, the send button, a suggested question, a quick reply
Paths == {"enter", "button", "suggestion", "quick"}

\* the element of a path is in the page of the render r and is not disabled
enabled(v, path, r) ==
  CASE path = "enter" -> ~r.loading
    [] path = "button" -> ~(r.loading \/ trim(r.input) = <<>>)
    [] path = "suggestion" -> r.showSuggestions /\ ~r.loading
    [] path = "quick" -> v = 1 /\ Len(r.quickReplies) > 0 /\ ~r.loading

\* const textToSend = messageText || input
textToSend(messageText, input) == IF messageText # <<>> THEN messageText ELSE input

\* if (!textToSend.trim() || loading) return
accepts(text, loading) == ~(trim(text) = <<>> \/ loading)

\* a render that is left for later
flush_deferred(next, prev) == prev

\* the render the handlers see after an event: the updates of the event are committed
flush(next, prev) == next

\* the state after the updates handleSend makes before the await
afterSend(v, state, text) ==
  [state EXCEPT !.messages = Append(@, [role |-> "user", content |-> <<text>>]),
                !.input = <<>>,
                !.loading = TRUE,
                !.showSuggestions = FALSE,
                !.quickReplies = IF v = 1 THEN <<>> ELSE @]

\* the state after the updates handleSend makes when sendMessage has settled
afterSettle(v, state, outcome) ==
  IF outcome.kind = "error"
    THEN [state EXCEPT !.messages = Append(@, [role |-> "assistant",
                                               content |-> apology(v, outcome.message)]),
                       !.loading = FALSE]
  ELSE [state EXCEPT !.messages = Append(@, [role |-> "assistant", content |-> <<outcome.text>>]),
                     !.quickReplies = IF v = 1 THEN outcome.suggestions ELSE @,
                     !.loading = FALSE]

\* the state after handleClearChat, confirmed
afterClear(v, state) ==
  [state EXCEPT !.messages = Welcome,
                !.showSuggestions = TRUE,
                !.quickReplies = IF v = 1 THEN <<>> ELSE @]

\* the call of sendMessage a version of the component makes, up to its first return
\* or to the search: the first version of the component takes the answers of the
\* first service (a text, or a text with suggestions), the second those of the second
sendMessageOf(v, text, conversationHistory, cache, t) ==
  [history |-> conversationHistory] @@
  (IF v = 1 THEN sendMessage_start(route(text, FullStore), conversationHistory, cache, t)
   ELSE sendMessage2_start(route2(text), conversationHistory, cache, t))

\* whether the call stores its answer in the response cache when it ends as outcome
storesAnswer(v, call, outcome) ==
  /\ call.path = "generate"
  /\ outcome.kind = "text"
  /\ IF v = 1 THEN sendMessage_finish(call, "answer_1", "rag", "greeting_1").stored
     ELSE sendMessage2_finish(call, "answer_1", "rag").stored

\* the ways the call can end: a call answered from the cache returns the stored text
endsAs(v, call) ==
  IF call.path = "hit" THEN {o \in Outcomes(v) : o.kind = "text" /\ o.text = call.reply}
  ELSE Outcomes(v)

(***************************************************************************)
(* The embedding service: embedCandidate, embedAllCandidates and           *)
(* reEmbedCandidate.  A call advances one awaited request at a time; each  *)
(* request to the database or to the embeddings API ends well or fails.    *)
(***************************************************************************)
MaxCandidates == 3

\* the ids of the rows of hr_job_candidates
CandidateIds == 1..MaxCandidates

\* the rows of a query, in the order of their ids
RECURSIVE rowsOf(_)
rowsOf(S) == IF S = {} THEN <<>> ELSE <<MinOf(S)>> \o rowsOf(S \ {MinOf(S)})

\* the query of embedAllCandidates: the candidates with a resume text, and among them
\* those of candidateIds when ids are given
selectCandidates(withResume, candidateIds) ==
  rowsOf(IF candidateIds # {} THEN withResume \cap candidateIds ELSE withResume)

\* embedCandidate: where the call goes when the request it awaits at pc has ended
embedCandidate(pc, ok) ==
  CASE pc = "fetch" -> IF ok THEN "generate" ELSE "failed"
    [] pc = "generate" -> IF ok THEN "upsert" ELSE "failed"
    [] pc = "upsert" -> IF ok THEN "completed" ELSE "failed"

\* the upsert of embedCandidate on resume_embeddings, one row for a candidate
upsert(table, candidateId) == [table EXCEPT ![candidateId] = "new"]

\* deleteCandidateEmbedding
deleteCandidateEmbedding(table, candidateId, ok) ==
  IF ok THEN [table EXCEPT ![candidateId] = "none"] ELSE table

\* if (success) successCount++ else failedCount++
tally(counts, success) ==
  IF success THEN [counts EXCEPT !.successCount = @ + 1]
  ELSE [counts EXCEPT !.failedCount = @ + 1]

\* the pause is made after every candidate
pauses_afterEach(i, n) == TRUE

\* if (i < candidates.length - 1) await new Promise(resolve => setTimeout(resolve, 100))
pauses(i, n) == i < n - 1

\* the call of embedCandidate that a caller starts
callOf(candidateId) == <<[id |-> candidateId, pc |-> "fetch"]>>

Jobs ==
  [op : {"embedAllCandidates"}, pc : {"select"}, withResume : SUBSET CandidateIds,
   candidateIds : SUBSET CandidateIds, candidateId : {0}, candidates : {<<>>}, i : {0},
   successCount : {0}, failedCount : {0}, call : {<<>>}, trace : {<<>>}, result : {<<>>}]
    \cup
  [op : {"reEmbedCandidate"}, pc : {"delete"}, withResume : {CandidateIds},
   candidateIds : {{}}, candidateId : CandidateIds, candidates : {<<>>}, i : {0},
   successCount : {0}, failedCount : {0}, call : {<<>>}, trace : {<<>>}, result : {<<>>}]

InitEmbed ==
  /\ embeddings \in [CandidateIds -> {"none", "old"}]
  /\ job \in [before : {embeddings}] \X Jobs
  /\ NoClassify
  /\ NoSearch
  /\ NoSend
  /\ NoFn
  /\ NoChat

\* the job proper and the embeddings stored when it began
Job == job[2]

Before == job[1].before

\* embedAllCandidates: the query for the candidates ends; on an error the zero
\* counts are returned, otherwise the loop is entered
SelectCandidates(ok) ==
  /\ Job.op = "embedAllCandidates" /\ Job.pc = "select"
  /\ LET candidates == selectCandidates(Job.withResume, Job.candidateIds)
     IN  job' = <<job[1],
                  IF ~ok
                    THEN [Job EXCEPT !.pc = "done",
                                     !.result = <<[total |-> 0, success |-> 0, failed |-> 0]>>]
                  ELSE IF Len(candidates) = 0
                    THEN [Job EXCEPT !.pc = "stats", !.candidates = candidates]
                  ELSE [Job EXCEPT !.pc = "call", !.candidates = candidates,
                                   !.call = callOf(candidates[1]),
                                   !.trace = Append(@, <<"start", candidates[1]>>)]>>
  /\ UNCHANGED <<embeddings, besidesEmbed>>

\* embedCandidate: the request the call awaits ends; a successful upsert stores the
\* new embedding; the call then logs its outcome
EmbedStep(ok) ==
  /\ Job.pc = "call"
  /\ Job.call[1].pc \in {"fetch", "generate", "upsert"}
  /\ embeddings' = IF Job.call[1].pc = "upsert" /\ ok THEN upsert(embeddings, Job.call[1].id)
                   ELSE embeddings
  /\ job' = <<job[1], [Job EXCEPT !.call[1].pc = embedCandidate(Job.call[1].pc, ok)]>>
  /\ UNCHANGED besidesEmbed

\* embedCandidate returns true or false to its caller, which continues
EmbedReturn ==
  /\ Job.pc = "call"
  /\ Job.call[1].pc \in {"completed", "failed"}
  /\ LET success == Job.call[1].pc = "completed"
         ended == [Job EXCEPT !.call = <<>>, !.trace = Append(@, <<"end", Job.call[1].id>>)]
     IN  job' = <<job[1],
                  IF Job.op = "reEmbedCandidate"
                    THEN [ended EXCEPT !.pc = "done", !.result = <<success>>]
                  ELSE [tally(ended, success) EXCEPT
                          !.pc = IF pauses(Job.i, Len(Job.candidates)) THEN "pause"
                                 ELSE "next"]>>
  /\ UNCHANGED <<embeddings, besidesEmbed>>

\* embedAllCandidates: the timer of the pause fires
Pause ==
  /\ Job.pc = "pause"
  /\ job' = <<job[1], [Job EXCEPT !.pc = "next", !.trace = Append(@, <<"pause", 0>>)]>>
  /\ UNCHANGED <<embeddings, besidesEmbed>>

\* embedAllCandidates: i++ and the test of the loop; the next call begins or the
\* loop is left
NextCandidate ==
  /\ Job.pc = "next"
  /\ job' = <<job[1],
              IF Job.i + 1 < Len(Job.candidates)
                THEN [Job EXCEPT !.i = @ + 1, !.pc = "call",
                                 !.call = callOf(Job.candidates[Job.i + 2]),
                                 !.trace = Append(@, <<"start", Job.candidates[Job.i + 2]>>)]
              ELSE [Job EXCEPT !.i = @ + 1, !.pc = "stats"]>>
  /\ UNCHANGED <<embeddings, besidesEmbed>>

\* embedAllCandidates: the statistics are read and the counts returned
ReturnCounts ==
  /\ Job.pc = "stats"
  /\ job' = <<job[1],
              [Job EXCEPT !.pc = "done",
                          !.result = <<[total |-> Len(Job.candidates),
                                        success |-> Job.successCount,
                                        failed |-> Job.failedCount]>>]>>
  /\ UNCHANGED <<embeddings, besidesEmbed>>

\* reEmbedCandidate: the stored embedding is deleted, the outcome of the deletion
\* is not looked at, and embedCandidate is called
DeleteEmbedding(ok) ==
  /\ Job.op = "reEmbedCandidate" /\ Job.pc = "delete"
  /\ embeddings' = deleteCandidateEmbedding(embeddings, Job.candidateId, ok)
  /\ job' = <<job[1], [Job EXCEPT !.pc = "call", !.call = callOf(Job.candidateId),
                                  !.trace = Append(@, <<"start", Job.candidateId>>)]>>
  /\ UNCHANGED besidesEmbed

NextEmbed ==
  \/ \E ok \in BOOLEAN : SelectCandidates(ok)
  \/ \E ok \in BOOLEAN : EmbedStep(ok)
  \/ EmbedReturn
  \/ Pause
  \/ NextCandidate
  \/ ReturnCounts
  \/ \E ok \in BOOLEAN : DeleteEmbedding(ok)

SpecEmbed == InitEmbed /\ [][NextEmbed]_vars

\* every awaited request and every timer ends
SpecEmbedLive == SpecEmbed /\ WF_vars(NextEmbed)
(***************************************************************************)
(* The classifier applied to messages: words typed with single blanks      *)
(* between them (an empty word stands for a doubled, leading or trailing   *)
(* blank), and the example messages of the specification.                  *)
(***************************************************************************)
MaxWords == 4

MaxClassifyCalls == 2

ClassifyWords == {<<"h","i">>, <<"h","e","l","p">>, <<"c","a","n","d","i","d","a","t","e","s">>, <<"w","e","a","t","h","e","r">>, <<"A","s","h","a">>, <<"a","b","1","2">>, <<>>}

Msg_hello == <<"h","e","l","l","o">>

Msg_showPython == <<"s","h","o","w"," ","m","e"," ","c","a","n","d","i","d","a","t","e","s"," ","w","i","t","h"," ","P","y","t","h","o","n"," ","s","k","i","l","l","s">>

Msg_weather == <<"w","h","a","t","'","s"," ","t","h","e"," ","w","e","a","t","h","e","r">>

Msg_ok == <<"o","k">>

Msg_weatherToday == <<"w","h","a","t","'","s"," ","t","h","e"," ","w","e","a","t","h","e","r"," ","t","o","d","a","y">>

Msg_longName == <<"A","s","h","a"," ","R","a","o"," ","s","a","i","d"," ","n","i","c","e"," ","t","h","i","n","g","s"," ","t","o","d","a","y">>

Msg_hiHelpCandidates == <<"h","i"," ","h","e","l","p"," ","c","a","n","d","i","d","a","t","e","s">>

ExampleMessages == {Msg_hello, Msg_showPython, Msg_weather, Msg_ok, Msg_weatherToday, Msg_longName}

TypedMessages == {join(ws, <<" ">>) : ws \in UNION {[1..n -> ClassifyWords] : n \in 1..MaxWords}}

ClassifyMessages == ExampleMessages \cup TypedMessages

InitClassify ==
  /\ cMessage \in ClassifyMessages
  /\ cResults = <<>>
  /\ NoSearch
  /\ NoSend
  /\ NoFn
  /\ NoChat
  /\ NoEmbed

\* one call of classifyQuery on the message
Classify ==
  /\ Len(cResults) < MaxClassifyCalls
  /\ cResults' = Append(cResults, classifyQuery(cMessage))
  /\ UNCHANGED <<cMessage, besidesClassify>>

NextClassify == Classify

SpecClassify == InitClassify /\ [][NextClassify]_vars

Classified == Len(cResults) > 0

LastResult == cResults[Len(cResults)]

\* C9 as stated: "hello" is a greeting, "show me candidates with Python skills" is
\* recruitment, "what's the weather" is off_topic and "ok" is unclear, and every call
\* on the same message returns the same type.
C9_Original ==
  Classified =>
    /\ cMessage = Msg_hello => LastResult.type = "greeting"
    /\ cMessage = Msg_showPython => LastResult.type = "recruitment"
    /\ cMessage = Msg_weather => LastResult.type = "off_topic"
    /\ cMessage = Msg_ok => LastResult.type = "unclear"
    /\ \A i \in 1..Len(cResults) : cResults[i].type = cResults[1].type

\* C9 amended: the same, but "what's the weather" (three words, no recruitment
\* keyword) is unclear; the four-word "what's the weather today" is off_topic.
C9_Examples ==
  Classified =>
    /\ cMessage = Msg_hello => LastResult.type = "greeting"
    /\ cMessage = Msg_showPython => LastResult.type = "recruitment"
    /\ cMessage = Msg_weather => LastResult.type = "unclear"
    /\ cMessage = Msg_weatherToday => LastResult.type = "off_topic"
    /\ cMessage = Msg_ok => LastResult.type = "unclear"
    /\ \A i \in 1..Len(cResults) : cResults[i].type = cResults[1].type

\* "what's the weather" has been classified twice
C9_Witness ==
  /\ cMessage = Msg_weather
  /\ Len(cResults) = 2
  /\ cResults[1].type = "unclear"

\* the tests of the classifier as the specification words them; the words of a
\* message are the segments between the single blanks of the message as given
GreetingTest(m) ==
  \E g \in Range(greetings) :
    trim(toLowerCase(m)) = g \/ startsWith(trim(toLowerCase(m)), g \o <<" ">>)

HelpTest(m) == \E kw \in Range(helpKeywords) : includes(trim(toLowerCase(m)), kw)

RecruitmentKeywordTest(m) ==
  \E kw \in Range(recruitmentKeywords) : includes(trim(toLowerCase(m)), kw)

IdentifierTest(m) == extractEmail(m) # Null \/ extractPhone(m) # Null \/ extractJobId(m) # Null

ProperNounTest(m) == Match(namePattern, m, FALSE).found /\ Len(split(m)) <= 5

ShortTest(m) == Len(split(m)) <= 3 /\ ~RecruitmentKeywordTest(m)

\* the label and confidence (in tenths) of the first test that holds
FirstLabel(m) ==
  IF GreetingTest(m) THEN [type |-> "greeting", confidence |-> 10]
  ELSE IF HelpTest(m) THEN [type |-> "help", confidence |-> 9]
  ELSE IF RecruitmentKeywordTest(m) \/ IdentifierTest(m) THEN [type |-> "recruitment", confidence |-> 9]
  ELSE IF ProperNounTest(m) THEN [type |-> "recruitment", confidence |-> 7]
  ELSE IF ShortTest(m) THEN [type |-> "unclear", confidence |-> 5]
  ELSE [type |-> "off_topic", confidence |-> 8]

\* C10: classifyQuery returns the label of the first test that holds in the order
\* greeting, help, recruitment, unclear, off_topic, with confidence 1.0, 0.9,
\* 0.9 / 0.7, 0.5, 0.8: a greeting start wins over help and recruitment keywords, a
\* help keyword wins over a recruitment keyword, and a message of at most three
\* words that reaches the fourth test is unclear, never off_topic.
C10_PriorityOrder ==
  Classified =>
    /\ LastResult = FirstLabel(cMessage)
    /\ GreetingTest(cMessage) => LastResult.type = "greeting"
    /\ (~GreetingTest(cMessage) /\ HelpTest(cMessage)) => LastResult.type = "help"
    /\ (Len(split(cMessage)) <= 3 /\ LastResult.type \notin {"greeting", "help", "recruitment"})
          => LastResult.type = "unclear"

\* a message that starts with a greeting and holds a help and a recruitment keyword
C10_Witness ==
  /\ Classified
  /\ cMessage = Msg_hiHelpCandidates
  /\ LastResult = [type |-> "greeting", confidence |-> 10]

(***************************************************************************)
(* The router applied to queries, histories, stores and fault plans.       *)
(***************************************************************************)
Hist_none == <<>>

\* a history whose assistant turn names a candidate in bold
Hist_asha ==
  <<[role |-> "user", content |-> <<"a","s","h","a"," ","r","a","o">>],
    [role |-> "assistant", content |-> <<"*","*","A","s","h","a"," ","R","a","o","*","*"," ","i","s"," ","i","n"," ","S","c","r","e","e","n","i","n","g">>]>>

Q_pythonAsha == <<"p","y","t","h","o","n"," ","a","s","h","a","@","x",".","c","o">>

Q_pythonNobody == <<"p","y","t","h","o","n"," ","n","o","b","o","d","y","@","x",".","c","o","m">>

Q_findWithPythonAsha == <<"f","i","n","d"," ","c","a","n","d","i","d","a","t","e","s"," ","w","i","t","h"," ","p","y","t","h","o","n"," ","a","s","h","a","@","x",".","c","o">>

Q_nobody == <<"n","o","b","o","d","y","@","x",".","c","o","m">>

Q_nobodyGmail == <<"n","o","b","o","d","y","@","g","m","a","i","l",".","c","o","m">>

Q_top1 == <<"t","o","p"," ","1"," ","c","a","n","d","i","d","a","t","e","s">>

Q_withPython == <<"c","a","n","d","i","d","a","t","e","s"," ","w","i","t","h"," ","p","y","t","h","o","n">>

Q_showAll == <<"s","h","o","w"," ","a","l","l"," ","c","a","n","d","i","d","a","t","e","s">>

Q_hisStatus == <<"h","i","s"," ","s","t","a","t","u","s">>

Q_phone == <<"9","8","7","6","5","4","3","2","1","0">>

Q_jobId == <<"d","e","t","a","i","l","s"," ","o","f"," ","A","B","1","2">>

Q_expertJava == <<"e","x","p","e","r","t"," ","i","n"," ","j","a","v","a">>

Q_moreThan3 == <<"m","o","r","e"," ","t","h","a","n"," ","3"," ","y","e","a","r","s">>

Q_scoreAbove == <<"s","c","o","r","e"," ","a","b","o","v","e"," ","8","0">>

Q_salaryBelow == <<"s","a","l","a","r","y"," ","b","e","l","o","w"," ","2","0","l">>

Q_dataAnalyst == <<"d","a","t","a"," ","a","n","a","l","y","s","t">>

Q_screening == <<"w","h","o","'","s"," ","i","n"," ","s","c","r","e","e","n","i","n","g">>

Q_selected == <<"s","e","l","e","c","t","e","d"," ","c","a","n","d","i","d","a","t","e","s">>

Q_pune == <<"c","a","n","d","i","d","a","t","e","s"," ","i","n"," ","p","u","n","e">>

Q_activeClients == <<"a","c","t","i","v","e"," ","c","l","i","e","n","t","s">>

Q_jobOpenings == <<"j","o","b"," ","o","p","e","n","i","n","g","s">>

Q_statusTypes == <<"s","t","a","t","u","s"," ","t","y","p","e","s">>

Q_linuxAdmin == <<"u","n","i","x"," ","a","d","m","i","n">>

Q_ashaRao == <<"a","s","h","a"," ","r","a","o">>

Q_zzz == <<"z","z","z">>

Q_appliedDate == <<"a","p","p","l","i","e","d"," ","d","a","t","e">>

Q_rao == <<"r","a","o">>

Q_raoAsha == <<"r","a","o"," ","a","s","h","a">>

Q_raoZed == <<"r","a","o"," ","z","e","d">>

Q_atIt == <<"a","t"," ","i","t">>

Q_rejected == <<"r","e","j","e","c","t","e","d"," ","c","a","n","d","i","d","a","t","e","s">>

Q_interview == <<"c","a","n","d","i","d","a","t","e","s"," ","i","n"," ","i","n","t","e","r","v","i","e","w">>

Q_offered == <<"o","f","f","e","r","e","d"," ","c","a","n","d","i","d","a","t","e","s">>

Q_top0 == <<"t","o","p"," ","0"," ","c","a","n","d","i","d","a","t","e","s">>

Q_top2 == <<"t","o","p"," ","2"," ","c","a","n","d","i","d","a","t","e","s">>

Q_top500 == <<"t","o","p"," ","5","0","0"," ","c","a","n","d","i","d","a","t","e","s">>

Q_top1Python == <<"t","o","p"," ","1"," ","c","a","n","d","i","d","a","t","e","s"," ","f","o","r"," ","p","y","t","h","o","n">>

Q_topPython == <<"t","o","p"," ","c","a","n","d","i","d","a","t","e","s"," ","f","o","r"," ","p","y","t","h","o","n">>

Q_best1Java == <<"b","e","s","t"," ","1"," ","c","a","n","d","i","d","a","t","e","s"," ","j","a","v","a">>

Q_notSelected == <<"c","a","n","d","i","d","a","t","e","s"," ","n","o","t"," ","s","e","l","e","c","t","e","d">>

Q_offer == <<"c","a","n","d","i","d","a","t","e","s"," ","w","i","t","h"," ","a","n"," ","o","f","f","e","r">>

Q_statusOfJob == <<"s","t","a","t","u","s"," ","o","f"," ","A","B","1","2">>

SearchQueries ==
  {Q_pythonAsha, Q_pythonNobody, Q_findWithPythonAsha, Q_nobody, Q_nobodyGmail, Q_top1, Q_withPython,
   Q_showAll, Q_hisStatus, Q_phone, Q_jobId, Q_expertJava, Q_moreThan3, Q_scoreAbove, Q_salaryBelow,
   Q_dataAnalyst, Q_screening, Q_selected, Q_pune, Q_activeClients, Q_jobOpenings, Q_statusTypes,
   Q_linuxAdmin, Q_ashaRao, Q_zzz, Q_appliedDate, Q_rao, Q_raoAsha, Q_raoZed, Q_atIt, Q_notSelected, Q_offer,
   Q_rejected, Q_interview, Q_offered, Q_top0, Q_top2, Q_top500, Q_top1Python, Q_topPython,
   Q_best1Java}

\* the queries that look at the history
HistoryQueries == {Q_hisStatus, Q_appliedDate, Q_withPython, Q_pythonAsha, Q_statusOfJob, Q_phone,
                   Q_nobodyGmail}

\* the queries of the single faults
FaultQueries ==
  {Q_pythonAsha, Q_pythonNobody, Q_nobody, Q_expertJava, Q_withPython, Q_activeClients, Q_ashaRao}

EveryReadFails == {[kind |-> k, at |-> "all"] : k \in {"error", "throw"}}

OneReadFails ==
  {[kind |-> k, at |-> id] : k \in {"error", "throw"},
                             id \in {"email", "semantic", "skill", "contacts", "catch_all"}}

\* the fault plans: no fault, every read failing one way, or one read failing
FaultPlans == {NoFault} \cup EveryReadFails \cup OneReadFails

SearchArgs ==
  [query : SearchQueries, history : {Hist_none}, store : Stores, fault : {NoFault} \cup EveryReadFails]
    \cup [query : HistoryQueries, history : {Hist_asha}, store : Stores, fault : {NoFault}]
    \cup [query : FaultQueries, history : {Hist_none}, store : {SoloStore, FullStore},
           fault : OneReadFails]

InitSearch ==
  /\ sArgs \in SearchArgs
  /\ sResult = <<>>
  /\ NoClassify
  /\ NoSend
  /\ NoFn
  /\ NoChat
  /\ NoEmbed

\* one call of smartSearch of the first service
SmartSearch ==
  /\ sResult = <<>>
  /\ sResult' = <<smartSearch(sArgs.query, sArgs.history, extractRequestedCount(sArgs.query),
                               sArgs.store, sArgs.fault)>>
  /\ UNCHANGED <<sArgs, besidesSearch>>

\* one call of smartSearch of the second service
SmartSearch2 ==
  /\ sResult = <<>>
  /\ sResult' = <<smartSearch2(sArgs.query, sArgs.history, sArgs.store, sArgs.fault)>>
  /\ UNCHANGED <<sArgs, besidesSearch>>

NextSearch == SmartSearch \/ SmartSearch2

SpecSearch == InitSearch /\ [][NextSearch]_vars

(***************************************************************************)
(* Specification Spec: the chat surface.  Calls of sendMessage overlap at  *)
(* their suspend points, clearCache empties the cache, the clock advances. *)
(***************************************************************************)
MaxCalls == 2

MaxInFlight == 2

MaxClears == 1

MaxTicks == 1

RECURSIVE repeat(_, _)
\* String.prototype.repeat
repeat(s, n) == IF n = 0 THEN <<>> ELSE s \o repeat(s, n - 1)

Msg_python == <<"p","y","t","h","o","n"," ","c","a","n","d","i","d","a","t","e","s">>

Msg_report == <<"c","a","n","d","i","d","a","t","e"," ","r","e","p","o","r","t">>

Msg_like == <<"c","a","n","d","i","d","a","t","e","s"," ","l","i","k","e"," ","A","s","h","a"," ","R","a","o">>

\* a job description: more than 250 characters, with the words the two services look for
Msg_JD == repeat(<<"c","a","n","d","i","d","a","t","e","s"," ","r","e","q","u","i","r","e","m","e","n","t","s"," ","s","k","i","l","l","s"," ","e","x","p","e","r","i","e","n","c","e"," ">>, 7)

Messages == {Msg_python, Msg_report, Msg_like, Msg_hello, Msg_ok, Msg_JD}

\* the conversation so far that the chat surface sends with the message
Histories == {Hist_none, Hist_asha}

\* the stores of the chat surface: one where the vector match finds nobody similar, one
\* where it does
SendStores == {SoloStore, FullStore}

\* how far the clock advances in one step: a millisecond less than the time to live of
\* the cache, or the time to live
Steps == {ttlOf(service) - 1, ttlOf(service)}

\* what the outside world can do to a suspended call: the answer of the generation
\* API to its last request, the fate of a job description, the greeting drawn
Chances(call) ==
  CASE call.path = "greeting" -> [out : {"answer_1"}, mode : {"rag"}, pick : Greetings]
    [] call.path \in {"unclear", "similar"} -> [out : {"answer_1"}, mode : {"rag"}, pick : {"greeting_1"}]
    [] call.path = "jd" ->
         [out : {"answer_1"}, mode : IF service = 1 THEN JDModes(store) ELSE JDModes2(store),
          pick : {"greeting_1"}]
           \cup [out : GenOutcomes, mode : {"ranked"} \cap JDModes(store), pick : {"greeting_1"}]
    [] OTHER -> [out : GenOutcomes, mode : {"rag"}, pick : {"greeting_1"}]

Init ==
  /\ service \in {1, 2}
  /\ store \in (IF service = 1 THEN SendStores ELSE {FullStore})
  /\ message \in Messages
  /\ routed = IF service = 1 THEN route(message, store) ELSE route2(message)
  /\ responseCache = <<>>
  /\ now = 0
  /\ inflight = <<>>
  /\ calls = <<>>
  /\ clears = 0
  /\ ticks = 0
  /\ NoClassify
  /\ NoSearch
  /\ NoFn
  /\ NoChat
  /\ NoEmbed

\* the entry of the cache under a key, as a sequence of at most one entry
entryOf(cache, key) == IF key \in DOMAIN cache THEN <<cache[key]>> ELSE <<>>

\* responseCache.set(key, { response, timestamp })
cacheSet(cache, key, response, t) == (key :> [response |-> response, timestamp |-> t]) @@ cache

removeAt(s, i) == SubSeq(s, 1, i - 1) \o SubSeq(s, i + 1, Len(s))

\* sendMessage is called and runs to its first return or to the search.  A call
\* answered from the cache returns at once; the others are suspended.
Send(conversationHistory) ==
  /\ Len(inflight) < MaxInFlight
  /\ Len(calls) + Len(inflight) < MaxCalls
  /\ LET s == IF service = 1
                THEN sendMessage_start(routed, conversationHistory, responseCache, now)
                ELSE sendMessage2_start(routed, conversationHistory, responseCache, now)
         call == [history |-> conversationHistory,
                  path |-> s.path, type |-> s.type, key |-> s.key, ops |-> s.ops,
                  found |-> entryOf(responseCache, s.key),
                  startedAt |-> now, after |-> Len(calls), clearsBefore |-> clears]
     IN  IF s.path = "hit"
           THEN /\ calls' = Append(calls, call @@ [status |-> "returned", reply |-> s.reply,
                                                   stored |-> FALSE, failed |-> FALSE,
                                                   endedAt |-> now,
                                                   clearsAfter |-> clears,
                                                   left |-> entryOf(responseCache, s.key)])
                /\ UNCHANGED inflight
           ELSE /\ inflight' = Append(inflight, call)
                /\ UNCHANGED calls
  /\ UNCHANGED <<service, store, message, routed, responseCache, now, clears, ticks, besidesSend>>

\* a suspended call runs to its end
Complete(i, out, mode, pick) ==
  /\ i \in 1..Len(inflight)
  /\ LET call == inflight[i]
         f == IF service = 1 THEN sendMessage_finish(call, out, mode, pick)
              ELSE sendMessage2_finish(call, out, mode)
         cache == IF f.stored THEN cacheSet(responseCache, call.key, f.reply, now)
                  ELSE responseCache
     IN  /\ responseCache' = cache
         /\ calls' = Append(calls, [call EXCEPT !.ops = @ \o f.ops]
                                     @@ [status |-> f.status, reply |-> f.reply,
                                         stored |-> f.stored, failed |-> f.failed,
                                         endedAt |-> now,
                                         clearsAfter |-> clears,
                                         left |-> entryOf(cache, call.key)])
         /\ inflight' = removeAt(inflight, i)
  /\ UNCHANGED <<service, store, message, routed, now, clears, ticks, besidesSend>>

\* clearCache
ClearCache ==
  /\ clears < MaxClears
  /\ responseCache' = <<>>
  /\ clears' = clears + 1
  /\ UNCHANGED <<service, store, message, routed, now, inflight, calls, ticks, besidesSend>>

\* time passes
Tick(d) ==
  /\ ticks < MaxTicks
  /\ now' = now + d
  /\ ticks' = ticks + 1
  /\ UNCHANGED <<service, store, message, routed, responseCache, inflight, calls, clears, besidesSend>>

Next ==
  \/ \E conversationHistory \in Histories : Send(conversationHistory)
  \/ \E i \in 1..Len(inflight) : \E c \in Chances(inflight[i]) : Complete(i, c.out, c.mode, c.pick)
  \/ ClearCache
  \/ \E d \in Steps : Tick(d)

Spec == Init /\ [][Next]_vars


(***************************************************************************)
(* extractRequestedCount applied to queries made of a few words and        *)
(* numbers, and calculateSimilarity applied to pairs of short strings.     *)
(***************************************************************************)
MaxCountWords == 3

CountWords == {<<"t","o","p">>, <<"g","i","v","e"," ","m","e">>, <<"p","y","t","h","o","n">>, <<"c","a","n","d","i","d","a","t","e","s">>, <<"0">>, <<"1">>, <<"2","0">>, <<"1","0","0">>,
               <<"1","0","1">>, <<"5","0","0">>, <<"1",",","0","0","0">>}

CountQueries == {join(ws, <<" ">>) : ws \in UNION {[1..n -> CountWords] : n \in 1..MaxCountWords}}

InitCount ==
  /\ fnArgs \in [query : CountQueries]
  /\ fnResult = <<>>
  /\ NoClassify
  /\ NoSearch
  /\ NoSend
  /\ NoChat
  /\ NoEmbed

\* one call of extractRequestedCount
ExtractRequestedCount ==
  /\ fnResult = <<>>
  /\ fnResult' = <<extractRequestedCount(fnArgs.query)>>
  /\ UNCHANGED <<fnArgs, besidesFn>>

NextCount == ExtractRequestedCount

SpecCount == InitCount /\ [][NextCount]_vars

MaxSimilarityLen == 3

SimilarityChars == {"a", "b", "B", " ", "-"}

SimilarityStrings == UNION {[1..n -> SimilarityChars] : n \in 0..MaxSimilarityLen}

InitSimilarity ==
  /\ fnArgs \in [str1 : SimilarityStrings, str2 : SimilarityStrings]
  /\ fnResult = <<>>
  /\ NoClassify
  /\ NoSearch
  /\ NoSend
  /\ NoChat
  /\ NoEmbed

\* one call of calculateSimilarity
CalculateSimilarity ==
  /\ fnResult = <<>>
  /\ fnResult' = <<calculateSimilarity(fnArgs.str1, fnArgs.str2)>>
  /\ UNCHANGED <<fnArgs, besidesFn>>

NextSimilarity == CalculateSimilarity

SpecSimilarity == InitSimilarity /\ [][NextSimilarity]_vars

(***************************************************************************)
(* extractExperience applied to queries made of comparators, year counts   *)
(* and other words.                                                        *)
(***************************************************************************)
MaxExperienceWords == 3

ExperienceWords == {<<"l","e","s","s"," ","t","h","a","n">>, <<"m","o","r","e"," ","t","h","a","n">>, <<"b","e","l","o","w">>, <<"o","v","e","r">>, <<"u","n","d","e","r">>, <<"<">>, <<">">>,
                    <<"m","o","r","e">>, <<"5"," ","y","e","a","r","s">>, <<"3"," ","y","e","a","r","s">>, <<"c","a","n","d","i","d","a","t","e","s">>}

ExperienceQueries ==
  {join(ws, <<" ">>) : ws \in UNION {[1..n -> ExperienceWords] : n \in 1..MaxExperienceWords}}

InitExperience ==
  /\ fnArgs \in [query : ExperienceQueries]
  /\ fnResult = <<>>
  /\ NoClassify
  /\ NoSearch
  /\ NoSend
  /\ NoChat
  /\ NoEmbed

\* one call of extractExperience
ExtractExperience ==
  /\ fnResult = <<>>
  /\ fnResult' = <<extractExperience(fnArgs.query)>>
  /\ UNCHANGED <<fnArgs, besidesFn>>

NextExperience == ExtractExperience

SpecExperience == InitExperience /\ [][NextExperience]_vars

(***************************************************************************)
(* extractNameFromHistory applied to histories of a few turns.             *)
(***************************************************************************)
MaxTurns == 4

Turns ==
  {[role |-> "user", content |-> <<"*","*","M","e","e","r","a"," ","N","a","i","r","*","*"," ","s","t","a","t","u","s">>],
   [role |-> "assistant", content |-> <<"*","*","A","s","h","a"," ","R","a","o","*","*"," ","i","s"," ","i","n"," ","S","c","r","e","e","n","i","n","g">>],
   [role |-> "assistant", content |-> <<"F","o","u","n","d"," ","*","*","R","a","v","i"," ","K","u","m","a","r","*","*">>],
   [role |-> "assistant", content |-> <<"N","o"," ","r","e","s","u","l","t","s">>]}

TurnHistories == UNION {[1..n -> Turns] : n \in 0..MaxTurns}

InitHistory ==
  /\ fnArgs \in [conversationHistory : TurnHistories]
  /\ fnResult = <<>>
  /\ NoClassify
  /\ NoSearch
  /\ NoSend
  /\ NoChat
  /\ NoEmbed

\* one call of extractNameFromHistory
ExtractNameFromHistory ==
  /\ fnResult = <<>>
  /\ fnResult' = <<extractNameFromHistory(fnArgs.conversationHistory)>>
  /\ UNCHANGED <<fnArgs, besidesFn>>

NextHistory == ExtractNameFromHistory

SpecHistory == InitHistory /\ [][NextHistory]_vars

(***************************************************************************)
(* The chat component under the events of a user and the settling of its   *)
(* requests.                                                               *)
(***************************************************************************)
MaxSends == 2

MaxChatClears == 1

\* what the user types into the input
Inputs == {<<>>, <<" ">>, <<"h","i">>}

\* the suggested questions, one standing for all
SUGGESTED_QUESTIONS == <<<<"T","o","p"," ","1","0"," ","c","a","n","d","i","d","a","t","e","s"," ","b","y"," ","s","c","o","r","e">>>>

\* the texts a path hands to handleSend
TextsOf(path) ==
  CASE path \in {"enter", "button"} -> {<<>>}
    [] path = "suggestion" -> Range(SUGGESTED_QUESTIONS)
    [] path = "quick" -> Range(rendered.quickReplies)

InitChat ==
  /\ version \in {1, 2}
  /\ ui = [messages |-> Welcome, input |-> <<>>, loading |-> FALSE, showSuggestions |-> TRUE,
           quickReplies |-> <<>>]
  /\ rendered = ui
  /\ requests = <<>>
  /\ sends = <<>>
  /\ chatClears = 0
  /\ NoClassify
  /\ NoSearch
  /\ NoSend
  /\ NoFn
  /\ NoEmbed

\* onChange of the input
SetInput(value) ==
  /\ ~rendered.loading
  /\ ui' = [ui EXCEPT !.input = value]
  /\ rendered' = flush(ui', rendered)
  /\ UNCHANGED <<version, requests, sends, chatClears, responseCache, besidesChat>>

\* the toggle of the suggestions
ToggleSuggestions ==
  /\ ui' = [ui EXCEPT !.showSuggestions = ~rendered.showSuggestions]
  /\ rendered' = flush(ui', rendered)
  /\ UNCHANGED <<version, requests, sends, chatClears, responseCache, besidesChat>>

\* handleSend, called from one of the paths, up to the await of sendMessage
HandleSend(path, messageText) ==
  /\ Len(sends) < MaxSends
  /\ enabled(version, path, rendered)
  /\ LET text == textToSend(messageText, rendered.input)
     IN  IF accepts(text, rendered.loading)
           THEN /\ ui' = afterSend(version, ui, text)
                /\ rendered' = flush(ui', rendered)
                /\ requests' = Append(requests, [send |-> Len(sends) + 1, text |-> text,
                                                 conversationHistory |-> rendered.messages,
                                                 call |-> sendMessageOf(version, text,
                                                            rendered.messages, responseCache, now)])
                /\ sends' = Append(sends, [text |-> text, before |-> ui.messages,
                                           outcome |-> "pending", after |-> <<>>,
                                           loading |-> TRUE])
           ELSE UNCHANGED <<ui, rendered, requests, sends>>
  /\ UNCHANGED <<version, chatClears, responseCache, besidesChat>>

\* a call of sendMessage settles and handleSend runs to its end
Settle(i, outcome) ==
  /\ i \in 1..Len(requests)
  /\ outcome \in endsAs(version, requests[i].call)
  /\ responseCache' = IF storesAnswer(version, requests[i].call, outcome)
                        THEN cacheSet(responseCache, requests[i].call.key, outcome.text, now)
                      ELSE responseCache
  /\ ui' = afterSettle(version, ui, outcome)
  /\ requests' = removeAt(requests, i)
  /\ sends' = [sends EXCEPT ![requests[i].send] =
                 [@ EXCEPT !.outcome = outcome.kind, !.after = ui'.messages,
                           !.loading = ui'.loading]]
  /\ UNCHANGED <<version, rendered, chatClears, besidesChat>>

\* the render that commits the updates made after the await
Render ==
  /\ rendered # ui
  /\ rendered' = ui
  /\ UNCHANGED <<version, ui, requests, sends, chatClears, responseCache, besidesChat>>

\* handleClearChat, confirmed: the conversation is reset and clearCache is called
ClearChat ==
  /\ chatClears < MaxChatClears
  /\ ui' = afterClear(version, ui)
  /\ responseCache' = <<>>
  /\ rendered' = flush(ui', rendered)
  /\ chatClears' = chatClears + 1
  /\ UNCHANGED <<version, requests, sends, besidesChat>>

NextChat ==
  \/ \E value \in Inputs : SetInput(value)
  \/ ToggleSuggestions
  \/ \E path \in Paths : \E messageText \in TextsOf(path) : HandleSend(path, messageText)
  \/ \E i \in 1..Len(requests) : \E outcome \in Outcomes(version) : Settle(i, outcome)
  \/ Render
  \/ ClearChat

SpecChat == InitChat /\ [][NextChat]_vars

\* every call of sendMessage settles, and every pending render is made
SpecChatLive ==
  /\ SpecChat
  /\ WF_vars(\E i \in 1..Len(requests) : \E outcome \in Outcomes(version) : Settle(i, outcome))
  /\ WF_vars(Render)
(***************************************************************************)
(* Properties of the router.                                               *)
(***************************************************************************)
Searched == Len(sResult) > 0

Result == sResult[1]

\* the ids of the reads the call issued, in order
ReadIds == [i \in 1..Len(Result.reads) |-> Result.reads[i].id]

\* the arguments of the first service's router as the steps see them
SearchCtx ==
  [query |-> sArgs.query, history |-> sArgs.history,
   limit |-> IF extractRequestedCount(sArgs.query) # NoCount THEN extractRequestedCount(sArgs.query)
             ELSE 20,
   store |-> sArgs.store, fault |-> sArgs.fault]

HasEmailAndSkill == extractEmail(sArgs.query) # Null /\ extractSkill(sArgs.query) # Null

\* the candidates of the store that hold the address of the query
EmailHolders == SelectSeq(sArgs.store.candidates, LAMBDA c : c.email = extractEmail(sArgs.query))

\* the email read of the call answers, with the rows of a candidate
EmailYields == Len(EmailHolders) > 0 /\ faultAt(sArgs.fault, "email") = "ok"

\* C5 as stated: for a query with an email address and a skill keyword the router
\* returns the email strategy's result, candidate_full_details, and never
\* candidates_by_skill or top_candidates_for_skill, whatever the store holds.
C5_Original ==
  (Searched /\ Result.impl = 1 /\ sArgs.fault = NoFault /\ HasEmailAndSkill)
    => Result.type = "candidate_full_details"

\* C5, amended: for a query with an email address and a skill keyword, the skill
\* strategy's candidates_by_skill is returned only when the email read yielded no
\* rows; when a candidate holds the address and the email read succeeds, the result
\* is candidate_full_details with the holders of the address, unless the
\* top-N-of-X strategy, which comes first, has returned or thrown before.
C5_EmailBeforeSkill ==
  (Searched /\ Result.impl = 1 /\ HasEmailAndSkill) =>
    /\ Result.type = "candidates_by_skill" => ~EmailYields
    /\ (EmailYields /\ Result.type \notin {"top_candidates_for_skill", "error"}) =>
         /\ Result.type = "candidate_full_details"
         /\ Result.rows = ids(EmailHolders)
    /\ (EmailYields /\ Result.type \in {"top_candidates_for_skill", "error"}) =>
         ReadIds = <<"top_of">>

\* a query with an address and a skill keyword answered by the email strategy, and
\* another answered by the skill strategy because nobody holds the address
C5_Witness ==
  /\ Searched /\ Result.impl = 1 /\ HasEmailAndSkill
  /\ \/ sArgs.query = Q_pythonAsha /\ Result.type = "candidate_full_details" /\ Result.rows = <<1>>
     \/ sArgs.query = Q_pythonNobody /\ Result.type = "candidates_by_skill"
                                     /\ ReadIds = <<"email", "skill">>

\* the strategies in the order of their priorities
PriorityOrder ==
  <<"top_of", "top_n", "all", "followup", "email", "phone", "job_id", "semantic", "experience",
    "score", "salary", "skill", "job_title", "status", "location", "client", "job", "status_types",
    "catch_all", "name_search">>

\* the strategy a read belongs to
strategyOfRead(id) ==
  CASE id \in {"title_candidates", "title_jobs"} -> "job_title"
    [] id \in {"name_phrase", "name_and", "name_or", "last_resort"} -> "name_search"
    [] id = "contacts" -> "client"
    [] OTHER -> id

\* the steps of a strategy
stepsOf(strategy) ==
  CASE strategy = "job_title" -> {"title_candidates", "title_jobs"}
    [] strategy = "name_search" -> {"name_phrase", "name_and", "name_or", "last_resort"}
    [] OTHER -> {strategy}

rank(strategy) == CHOOSE k \in 1..Len(PriorityOrder) : PriorityOrder[k] = strategy

\* the trigger of the strategy matches and one of its reads yields rows
Yields(strategy) == \E id \in stepsOf(strategy) : step(id, SearchCtx).hit

Triggered(strategy) == \E id \in stepsOf(strategy) : trigger(id, SearchCtx)

\* the ranks of the strategies that yield rows for the arguments of the call
Winners == {k \in 1..Len(PriorityOrder) : Yields(PriorityOrder[k])}

Failing == Searched /\ sArgs.fault.kind # "none"

\* the reads of the call that the plan makes fail
FailedReads ==
  {i \in 1..Len(ReadIds) : faultAt(sArgs.fault, ReadIds[i]) # "ok"}

\* C7 as stated: a read that fails, by an error value or by throwing, counts as no
\* data and the next strategy is tried; when every read fails the result is
\* no_results, never the error result.
C7_Original ==
  Failing =>
    /\ Result.type # "error"
    /\ sArgs.fault.at = "all" => Result.type = "no_results"

\* C7, amended: a read that reports an error value counts as no data and the next
\* strategy is tried, so that the result is never that of the failed read and is
\* no_results when every read reports an error; a read that throws ends the search
\* with the error result (type error, no data), except the semantic search of the
\* first service, whose failure counts as no data; no call ends in an exception.
C7_FailedReads ==
  Failing =>
    /\ sArgs.fault.kind = "error" =>
         /\ Result.type # "error"
         /\ sArgs.fault.at = "all" => Result.type = "no_results"
         /\ (Result.type # "no_results" /\ sArgs.fault.at \notin {"contacts", "all"}) =>
               ReadIds[Len(ReadIds)] # sArgs.fault.at
    /\ sArgs.fault.kind = "throw" =>
         LET thrown == {i \in FailedReads : ~(Result.impl = 1 /\ ReadIds[i] = "semantic")}
         IN  /\ Result.type = "error" <=> thrown # {}
             /\ Result.type = "error" => thrown = {Len(ReadIds)} /\ Result.rows = <<>>
             /\ (Result.impl = 1 /\ sArgs.fault.at = "semantic") => Result.type # "semantic_search"

\* a call all of whose reads reported an error and that went through three
\* strategies at least, and a call ended by a read that threw
C7_Witness ==
  /\ Failing
  /\ \/ /\ sArgs.fault = [kind |-> "error", at |-> "all"]
        /\ Len(ReadIds) >= 3 /\ Result.type = "no_results"
     \/ /\ sArgs.fault.kind = "throw" /\ Result.type = "error" /\ Len(ReadIds) >= 2

\* the query asks for an address that no candidate of the store holds
AsksAbsentEmail == extractEmail(sArgs.query) # Null /\ Len(EmailHolders) = 0

\* C8 as stated: the router returns no_results exactly when no strategy yields
\* rows, and a query for an address that no candidate holds returns no_results
\* whatever other candidates the store holds.
C8_Original ==
  (Searched /\ Result.impl = 1 /\ sArgs.fault = NoFault) =>
    /\ Result.type = "no_results" <=> Winners = {}
    /\ AsksAbsentEmail => Result.type = "no_results"


(***************************************************************************)
(* The status strategy.                                                    *)
(***************************************************************************)
\* the reads of the status strategy that the call issued
StatusReads == SelectSeq(Result.reads, LAMBDA r : r.id = "status")

\* the status key the call matched in the query
StatusKeyOf ==
  IF Result.impl = 1 THEN matchedStatusKey(toLowerCase(sArgs.query))
  ELSE matchedStatusKey2(toLowerCase(sArgs.query))

\* the key with its first letter in upper case
capitalized(key) ==
  LET text == [screening |-> <<"s","c","r","e","e","n","i","n","g">>, selected |-> <<"s","e","l","e","c","t","e","d">>, rejected |-> <<"r","e","j","e","c","t","e","d">>,
               interview |-> <<"i","n","t","e","r","v","i","e","w">>, offered |-> <<"o","f","f","e","r","e","d">>][key]
  IN  <<UpperChar(text[1])>> \o Tail(text)

\* the filter of the status read is on the column with the value
StatusFilter(col, val) ==
  /\ Len(StatusReads) = 1
  /\ StatusReads[1].col = col
  /\ StatusReads[1].val = val

\* C13 as stated: "who's in screening" filters on status = "Screening" and
\* "selected candidates" on interview_result = "Selected"; screening and offered
\* filter the column status, selected, rejected and interview the column
\* interview_result, each with the capitalized key as the value, in either service.
C13_Original ==
  (Searched /\ sArgs.fault = NoFault /\ sArgs.history = Hist_none) =>
    /\ sArgs.query = Q_screening => StatusFilter("status", <<"S","c","r","e","e","n","i","n","g">>)
    /\ sArgs.query = Q_selected => StatusFilter("interview_result", <<"S","e","l","e","c","t","e","d">>)
    /\ \A i \in 1..Len(StatusReads) :
         /\ StatusReads[i].col = (IF StatusKeyOf \in {"screening", "offered"} THEN "status"
                                  ELSE "interview_result")
         /\ StatusReads[i].val = capitalized(StatusKeyOf)


(***************************************************************************)
(* The semantic search.                                                    *)
(***************************************************************************)
\* the call issued the semantic search
SemanticTried == \E i \in 1..Len(Result.reads) : Result.reads[i].id = "semantic"

\* the vector-similarity collaborator fails or finds nothing
SemanticYieldsNothing ==
  faultAt(sArgs.fault, "semantic") # "ok" \/ Len(sArgs.store.similar) = 0

\* the strategies of the first service without the semantic search
OrderWithoutSemantic == SelectSeq(StepOrder, LAMBDA id : id # "semantic")

\* what the call returns if the semantic trigger does not match
WithoutSemantic == runSteps(1, OrderWithoutSemantic, SearchCtx)

\* C18: when the semantic search is tried and its collaborator fails or returns an
\* empty list, smartSearch returns what it returns when the semantic trigger does
\* not match: the same type, the same rows, after the same other reads.
C18_SemanticFallsThrough ==
  (Searched /\ Result.impl = 1 /\ SemanticTried /\ SemanticYieldsNothing) =>
    /\ Result.type = WithoutSemantic.type
    /\ Result.rows = WithoutSemantic.rows
    /\ SelectSeq(Result.reads, LAMBDA r : r.id # "semantic") = WithoutSemantic.reads

\* the semantic search threw and a later strategy answered
C18_Witness ==
  /\ Searched /\ Result.impl = 1 /\ SemanticTried
  /\ sArgs.fault = [kind |-> "throw", at |-> "semantic"]
  /\ Result.type \notin {"error", "no_results", "semantic_search"}
  /\ Len(Result.rows) > 0

(***************************************************************************)
(* The follow-up strategy.                                                 *)
(***************************************************************************)
\* the message carries an identifier: an email address, a phone number or a job id
CarriesIdentifier ==
  \/ extractEmail(sArgs.query) # Null
  \/ extractPhone(sArgs.query) # Null
  \/ extractJobId(sArgs.query) # Null

\* the call issued the read of the follow-up strategy
FollowUpTried == \E i \in 1..Len(Result.reads) : Result.reads[i].id = "followup"

\* C20 as stated: the follow-up strategy fires only for a message of fewer than 8
\* words with a follow-up cue word, a non-empty history and no identifier; a message
\* with an email address, a phone number or a job id never gets candidate_followup,
\* and a message naming a job id of the store is answered by the job-id lookup.
C20_Original ==
  (Searched /\ Result.impl = 1 /\ sArgs.fault = NoFault) =>
    /\ FollowUpTried =>
         /\ Len(split(toLowerCase(sArgs.query))) < 8
         /\ someIncluded(followUpKeywords, toLowerCase(sArgs.query))
         /\ Len(sArgs.history) > 0
         /\ ~CarriesIdentifier
    /\ CarriesIdentifier => Result.type # "candidate_followup"
    /\ ( /\ extractJobId(sArgs.query) # Null
         /\ \E i \in 1..Len(sArgs.store.jobs) : sArgs.store.jobs[i].job_id = extractJobId(sArgs.query)
         /\ extractEmail(sArgs.query) = Null /\ extractPhone(sArgs.query) = Null )
         => Result.type = "job_details"
(***************************************************************************)
(* The job strategy.                                                       *)
(***************************************************************************)
\* the reads of the job strategy that the call issued
JobReads == SelectSeq(Result.reads, LAMBDA r : r.id = "job")

\* the query holds the word active or the word open
AsksActiveOrOpen ==
  \E w \in Range(split(toLowerCase(sArgs.query))) : w \in {<<"a","c","t","i","v","e">>, <<"o","p","e","n">>}

\* C22 as stated: the job strategy restricts its read to status 'Active' only when
\* the query holds the word "active" or "open"; a query that reaches it without
\* these words, such as "job openings", reads and returns the jobs of every status.
C22_Original ==
  (Searched /\ sArgs.fault = NoFault /\ ~AsksActiveOrOpen) =>
    /\ \A i \in 1..Len(JobReads) : JobReads[i].col = "" /\ JobReads[i].val = Null
    /\ Result.type = "jobs" => Result.rows = ids(slice0(sArgs.store.jobs, 20))

(***************************************************************************)
(* The caller's conversation history.                                      *)
(***************************************************************************)
\* conversationHistory.slice(-6): the turns sendMessage puts in the prompt
promptTurns(conversationHistory) == lastN(conversationHistory, 6)

\* C27 as stated: smartSearch leaves the caller's conversation history unchanged for
\* every query, so that the turns sendMessage then puts in the prompt are the last
\* six turns of the original history in chronological order.
C27_Original ==
  Searched =>
    /\ Result.history = sArgs.history
    /\ promptTurns(Result.history) = promptTurns(sArgs.history)

\* the same for the first service
FirstServiceKeepsHistory == (Searched /\ Result.impl = 1) => Result.history = sArgs.history

(***************************************************************************)
(* The keywords of the status dictionary.                                  *)
(***************************************************************************)
\* the keys of the dictionary one of whose keywords the query holds
KeysInQuery ==
  {k \in Range(statusKeys) : someIncluded(statusKeywords[k], toLowerCase(sArgs.query))}

\* C30 as stated: every keyword of the status dictionary selects its own status: a
\* query with "not selected" and no screening keyword is filtered on
\* interview_result = "Rejected", a query with "offer" on status = "Offered", and the
\* filter of every status read is that of a key whose keyword the query holds.
C30_Original ==
  (Searched /\ sArgs.fault = NoFault /\ sArgs.history = Hist_none) =>
    /\ sArgs.query = Q_notSelected => StatusFilter("interview_result", <<"R","e","j","e","c","t","e","d">>)
    /\ sArgs.query = Q_offer => StatusFilter("status", <<"O","f","f","e","r","e","d">>)
    /\ \A i \in 1..Len(StatusReads) :
         \E k \in KeysInQuery : /\ StatusReads[i].col = statusColumn(k)
                                /\ StatusReads[i].val = statusValues[k]
(***************************************************************************)
(* Claims about the embedding service.                                     *)
(***************************************************************************)
\* the calls and pauses of a bulk run over the candidates: each candidate's call
\* begins and ends before the next begins, with a pause between two calls
RECURSIVE expectedTrace(_)
expectedTrace(cs) ==
  IF cs = <<>> THEN <<>>
  ELSE <<<<"start", cs[1]>>, <<"end", cs[1]>>>>
         \o (IF Len(cs) > 1 THEN <<<<"pause", 0>>>> ELSE <<>>)
         \o expectedTrace(Tail(cs))

IsPrefix(a, b) == Len(a) <= Len(b) /\ a = SubSeq(b, 1, Len(a))

BulkRun == Job.op = "embedAllCandidates"

\* the bulk run so far and, once it has returned, its counts
BulkSafe ==
  BulkRun =>
    /\ Job.candidates \in {<<>>, selectCandidates(Job.withResume, Job.candidateIds)}
    /\ IsPrefix(Job.trace, expectedTrace(Job.candidates))
    /\ Job.pc = "done" =>
         /\ Job.trace = expectedTrace(Job.candidates)
         /\ Job.result[1].total = Len(Job.candidates)
         /\ Job.result[1].success + Job.result[1].failed = Job.result[1].total

ReEmbed == Job.op = "reEmbedCandidate" /\ Job.pc = "done"

\* C29 as stated: reEmbedCandidate never loses an embedding: when it returns false
\* for a candidate that had a stored embedding, an embedding of the candidate is
\* still stored; when it returns true, the new embedding is the one stored.
C29_Original ==
  ReEmbed =>
    /\ (Job.result = <<FALSE>> /\ Before[Job.candidateId] = "old")
         => embeddings[Job.candidateId] # "none"
    /\ Job.result = <<TRUE>> => embeddings[Job.candidateId] = "new"
(***************************************************************************)
(* The response cache, under Spec.                                         *)
(***************************************************************************)
\* the message of the session is one classifyQuery takes for a recruitment query
Recruitment == classifyQuery(message).type = "recruitment"

\* how many requests a call made to the generation API
Generations(c) == Len(SelectSeq(c.ops, LAMBDA o : o = "generate"))

Did(c, o) == \E k \in 1..Len(c.ops) : c.ops[k] = o

\* call j was sent when call i had returned
SentAfter(i, j) == i < j /\ calls[j].after >= i

\* the call found, under its key, an entry as old as the time to live or older
FoundStale(c) ==
  c.found # <<>> /\ c.startedAt - c.found[1].timestamp >= ttlOf(service)

\* the entry the call would leave if it stored its reply when it ended
FreshEntry(c) == <<[response |-> c.reply, timestamp |-> c.endedAt]>>

CachedPair(i, j) ==
  /\ SentAfter(i, j)
  /\ calls[i].history = <<>> /\ calls[j].history = <<>>
  /\ calls[i].path = "generate" /\ calls[i].status = "returned"
  /\ calls[j].startedAt - calls[i].endedAt < ttlOf(service)
  /\ calls[j].clearsBefore = calls[i].clearsAfter
  /\ \A k \in (i + 1)..calls[j].after : ~calls[k].stored
  /\ Recruitment

C2_Original ==
  \A i \in 1..Len(calls) :
    calls[i].path = "hit" => (calls[i].history = <<>> /\ Recruitment)

\* C3 as stated: a call answered from the cache invokes neither classifyQuery nor
\* smartSearch, reads nothing from the store and sends nothing to the generation API.
C3_Original ==
  \A i \in 1..Len(calls) :
    calls[i].path = "hit"
    => \A k \in 1..Len(calls[i].ops) : calls[i].ops[k] \in {"extractRequestedCount", "cache_get"}

\* C3: a call answered from the cache returns the stored answer without invoking
\* smartSearch and without a request to the generation API; the first service has by
\* then invoked classifyQuery and read the store for getStats, the second has done
\* nothing but look the cache up.
C3_HitSkipsSearch ==
  \A i \in 1..Len(calls) :
    calls[i].path = "hit"
    => /\ calls[i].found # <<>> /\ calls[i].reply = calls[i].found[1].response
       /\ ~Did(calls[i], "smartSearch")
       /\ ~Did(calls[i], "generate")
       /\ service = 1 => (Did(calls[i], "classifyQuery") /\ Did(calls[i], "getStats"))
       /\ service = 2 => calls[i].ops = <<"cache_get">>

C3_Witness ==
  \E i \in 1..Len(calls) : service = 1 /\ calls[i].path = "hit" /\ calls[i].startedAt > 0

\* C4 as stated: an entry as old as the time to live or older is never returned, and the
\* call that finds it always replaces it by its own answer under a new timestamp.
C4_Original ==
  \A i \in 1..Len(calls) :
    FoundStale(calls[i])
    => /\ calls[i].path # "hit"
       /\ calls[i].left = FreshEntry(calls[i])

\* C4: an entry as old as the time to live or older is never returned; the call that
\* finds it goes on as a miss and, when the generation API answers it and (first
\* service) it carries no conversation history, replaces the entry by the answer under
\* a new timestamp.
C4_StaleIgnored ==
  \A i \in 1..Len(calls) :
    FoundStale(calls[i])
    => /\ calls[i].path = "generate"
       /\ ( /\ calls[i].status = "returned"
            /\ service = 1 => calls[i].history = <<>> )
          => calls[i].left = FreshEntry(calls[i])

C4_Witness ==
  \E i \in 1..Len(calls) :
    /\ FoundStale(calls[i])
    /\ calls[i].startedAt - calls[i].found[1].timestamp = ttlOf(service)
    /\ calls[i].stored
    /\ calls[i].left # calls[i].found


\* the errors that carry the message of the generation API
UpstreamErrors == {"OpenAI: upstream message", "OpenAI error: upstream message"}

\* the replies with which a branch reports a failure it caught
CaughtFailureReplies ==
  [jd |-> {"Error analyzing job description: AI extraction failed",
           "Error analyzing job description: AI ranking failed",
           "I encountered an error while analyzing the job description: AI extraction failed",
           "I encountered an error while analyzing the job description: AI ranking failed"},
   analytics |-> {"Error generating report: Report generation failed. You may need to create SQL functions in Supabase."}]

MessageType == classifyQuery(message).type

\* every request of the call to the generation API comes after a call of the router
SearchBeforeGeneration(c) ==
  \A k \in 1..Len(c.ops) :
    c.ops[k] = "generate" => \E h \in 1..(k - 1) : c.ops[h] = "smartSearch"

\* C17 as stated: sendMessage invokes smartSearch only for a message classified as
\* recruitment; a greeting or an unclear message is answered without smartSearch
\* and without the generation API; and for a recruitment message the generation
\* API is called only after smartSearch has returned.  In either service.
C17_Original ==
  \A i \in 1..Len(calls) :
    /\ Did(calls[i], "smartSearch") => MessageType = "recruitment"
    /\ MessageType \in {"greeting", "unclear"} =>
         ~Did(calls[i], "smartSearch") /\ ~Did(calls[i], "generate")
    /\ MessageType = "recruitment" => SearchBeforeGeneration(calls[i])


\* in the first service a call with a history neither is answered from the cache nor
\* stores its answer
HistoryBypassesCache ==
  \A i \in 1..Len(calls) :
    (service = 1 /\ calls[i].history # <<>>) => calls[i].path # "hit" /\ ~calls[i].stored

\* the calls that stored the entry the cache holds under a key
Producers(k) ==
  {i \in 1..Len(calls) : /\ calls[i].stored
                         /\ calls[i].key = k
                         /\ calls[i].reply = responseCache[k].response
                         /\ calls[i].endedAt = responseCache[k].timestamp}

\* the call returned an answer of the generation API to a request that succeeded,
\* for a message without history
GeneratedWithoutHistory(c) ==
  /\ c.status = "returned"
  /\ c.path = "generate"
  /\ ~c.failed
  /\ c.reply \in Answers
  /\ c.history = <<>>

\* C26 as stated: every entry of the response cache holds the answer of a successful
\* request to the generation API made for a recruitment-classified message with an
\* empty history, in either service, after any sequence of sendMessage and clearCache.
C26_Original ==
  \A k \in DOMAIN responseCache :
    /\ Producers(k) # {}
    /\ \A i \in Producers(k) : GeneratedWithoutHistory(calls[i])
    /\ Recruitment

\* the same for the entries the first service stores
FirstServiceEntries == service = 1 => C26_Original

(***************************************************************************)
(* Claims about the helper functions.                                      *)
(***************************************************************************)
\* the positions where a run of digits starts
runStarts(s) == {i \in 1..Len(s) : s[i] \in Digits /\ (i = 1 \/ s[i - 1] \notin Digits)}

\* the run of digits that starts at i
runAt(s, i) ==
  SubSeq(s, i, MaxOf({j \in i..Len(s) : \A k \in i..j : s[k] \in Digits}))

\* a run of digits without its leading zeros
RECURSIVE stripZeros(_)
stripZeros(ds) == IF Len(ds) > 1 /\ ds[1] = "0" THEN stripZeros(Tail(ds)) ELSE ds

\* the number a run of digits writes; a number of ten digits or more is above every
\* limit of the program and stands as 999999999
numberOf(ds) == IF Len(stripZeros(ds)) > 9 THEN 999999999 ELSE parseInt(stripZeros(ds))

\* the numbers written in a text
numbersIn(s) == {numberOf(runAt(s, i)) : i \in runStarts(s)}

Counted == fnResult # <<>> /\ "query" \in DOMAIN fnArgs

\* C11: extractRequestedCount returns no count or a count from 1 to 100, and it
\* returns no count for a query in which no number written is from 1 to 100, such
\* as "top 500" and "top 0".
C11_CountWithinLimits ==
  Counted =>
    /\ fnResult[1] = NoCount \/ fnResult[1] \in 1..100
    /\ numbersIn(fnArgs.query) \cap (1..100) = {} => fnResult[1] = NoCount

\* "top 500" was examined and gave no count
C11_Witness ==
  /\ Counted
  /\ fnArgs.query = <<"t","o","p"," ","5","0","0">>
  /\ fnResult[1] = NoCount

Compared == fnResult # <<>> /\ "str1" \in DOMAIN fnArgs

\* the division of calculateSimilarity is reached: the normalized strings differ
\* and neither includes the other
DivisionReached ==
  LET s1 == normalizeForSearch(fnArgs.str1)
      s2 == normalizeForSearch(fnArgs.str2)
  IN  s1 # s2 /\ ~includes(s1, s2) /\ ~includes(s2, s1)

\* C12: calculateSimilarity(s, s) is 1, every result is a fraction with a non-zero
\* denominator, and when the division is reached the union of the characters is
\* not empty.
C12_SimilarityDefined ==
  Compared =>
    /\ fnResult[1].den > 0
    /\ fnArgs.str1 = fnArgs.str2 => fnResult[1].num = fnResult[1].den
    /\ DivisionReached =>
         Range(normalizeForSearch(fnArgs.str1)) \cup Range(normalizeForSearch(fnArgs.str2)) # {}

\* two strings that normalize to the empty string were compared
C12_Witness ==
  /\ Compared
  /\ fnArgs.str1 = <<"-">>
  /\ fnArgs.str2 = <<" ", " ">>
  /\ fnResult[1] = [num |-> 1, den |-> 1]

\* the comparator the pattern of extractExperience matched: the first alternative
\* holds the greater-than forms and fills group 1, the second holds the less-than
\* forms and fills group 2
ComparatorMatch == Match(ExperienceRx, fnArgs.query, TRUE)

ComparatorForm == IF Group(ComparatorMatch, fnArgs.query, 1) # Null THEN "gt" ELSE "lt"

ComparatorYears ==
  IF Group(ComparatorMatch, fnArgs.query, 1) # Null
    THEN numberOf(Group(ComparatorMatch, fnArgs.query, 1))
    ELSE numberOf(Group(ComparatorMatch, fnArgs.query, 2))

ExperienceExamined == fnResult # <<>> /\ fnResult[1] \in [found : BOOLEAN, value : Nat, operator : {"gt", "lt"}]

\* C21: when extractExperience recognizes a comparator bound to a year count, the
\* operator it returns is gt exactly when that comparator is a greater-than form
\* and lt exactly when it is a less-than form, whatever other words the query
\* holds, and years is the number bound to that comparator.
C21_Original ==
  (ExperienceExamined /\ fnResult[1].found) =>
    /\ fnResult[1].operator = ComparatorForm
    /\ fnResult[1].value = ComparatorYears

HistoryExamined == fnResult # <<>> /\ "conversationHistory" \in DOMAIN fnArgs

\* the positions of the last three assistant turns of the history
LastThreeAssistant ==
  LET assistant == {i \in 1..Len(fnArgs.conversationHistory) :
                      fnArgs.conversationHistory[i].role = "assistant"}
  IN  {i \in assistant : Cardinality({j \in assistant : j > i}) < 3}

\* the name a turn wraps in bold, or Null
BoldNameAt(i) ==
  LET content == fnArgs.conversationHistory[i].content
  IN  IF Match(BoldNameRx, content, FALSE).found
        THEN Group(Match(BoldNameRx, content, FALSE), content, 1) ELSE Null

\* those of the last three assistant turns that hold a bold name
NamedTurns == {i \in LastThreeAssistant : BoldNameAt(i) # Null}

\* C23: extractNameFromHistory returns the bold name of the most recent of the last
\* three assistant turns that holds one, and null when none of the three holds one.
C23_Original ==
  HistoryExamined =>
    fnResult[1] = (IF NamedTurns = {} THEN Null ELSE BoldNameAt(MaxOf(NamedTurns)))

(***************************************************************************)
(* Claims about the chat component.                                        *)
(***************************************************************************)
\* C16: at most one call of sendMessage is pending at any time, whatever the order
\* of the user's events, the settling of the requests and the renders.
C16_OneRequest == Len(requests) <= 1

\* the second send of a session is pending, alone, with the page showing the loading
\* state
C16_Witness ==
  /\ Len(requests) = 1
  /\ Len(sends) = 2
  /\ requests[1].send = 2
  /\ ui.loading /\ rendered.loading

\* the last two messages of a sequence
lastTwo(msgs) == SubSeq(msgs, Len(msgs) - 1, Len(msgs))

\* the assistant message a send ends with: the reply, or the apology with the error text
Closing(k) ==
  IF sends[k].outcome = "error"
    THEN [role |-> "assistant", content |-> apology(version, "OpenAI: upstream message")]
  ELSE [role |-> "assistant", content |-> <<"answer">>]

\* the k-th send handleSend accepted has completed: loading was reset and the
\* messages then were those before the send, the user's message and one assistant
\* message
Completed(k) ==
  /\ Len(sends) >= k
  /\ sends[k].outcome # "pending"
  /\ ~sends[k].loading
  /\ sends[k].after =
       sends[k].before \o <<[role |-> "user", content |-> <<sends[k].text>>], Closing(k)>>

\* C15 as stated: every send handleSend accepts eventually completes with loading
\* reset to false and exactly one assistant message appended after the user's
\* message, the reply or the apology with the error text.
C15_Original == \A k \in 1..MaxSends : (Len(sends) >= k) ~> Completed(k)

\* the k-th send has settled with loading reset and one assistant message appended
\* at the end of the messages
Settled(k) ==
  /\ Len(sends) >= k
  /\ sends[k].outcome # "pending"
  /\ ~sends[k].loading
  /\ sends[k].after[Len(sends[k].after)] = Closing(k)

\* every accepted send settles: no send leaves the component loading for ever
EverySendSettles == \A k \in 1..MaxSends : (Len(sends) >= k) ~> Settled(k)

\* the requests made for a first message: those sent while the conversation was
\* the welcome message alone, in a fresh chat or after a clear
FirstMessageRequests ==
  {i \in 1..Len(requests) : sends[requests[i].send].before = Welcome}

\* C24 as stated: for the first message of a fresh or just-cleared chat the
\* component passes an empty conversation history to sendMessage (the condition
\* under which the first service consults and fills the response cache).
C24_Original ==
  \A i \in FirstMessageRequests : requests[i].conversationHistory = <<>>

\* the chat was cleared and holds the welcome message alone, with an empty cache
Cleared == chatClears > 0 /\ ui.messages = Welcome /\ responseCache = <<>>

\* C25 as stated: once the chat is cleared, the message list is the welcome message
\* alone and the response cache is empty, and both stay so until the user sends a
\* new message, also when a request was pending at the moment of clearing.
C25_Original ==
  [][(Cleared /\ Len(sends') = Len(sends)) => (ui'.messages = Welcome /\ responseCache' = <<>>)]_vars

(***************************************************************************)
(* The lists of the top candidates.                                        *)
(***************************************************************************)
\* the query has the phrasing "top/best/highest N candidates", or "top N ... of/for X"
\* with or without the number
TopMatch == Match(topCandidatesPattern, toLowerCase(sArgs.query), TRUE)

TopOfMatch == Match(topCandidatesOfPattern, sArgs.query, TRUE)

AsksForTop ==
  \/ TopMatch.found
  \/ /\ TopOfMatch.found
     /\ \/ startsWith(toLowerCase(Whole(TopOfMatch, sArgs.query)), <<"t","o","p">>)
        \/ startsWith(toLowerCase(Whole(TopOfMatch, sArgs.query)), <<"b","e","s","t">>)

\* the number written in the query, or the default when none is written
WrittenCount ==
  IF numbersIn(sArgs.query) = {} THEN 20 ELSE MaxOf(numbersIn(sArgs.query))

\* the candidate of the store with the id
candidateOf(id) == CHOOSE c \in Range(sArgs.store.candidates) : c.id = id

\* the rows are candidates with a score, the highest first
Descending(rows) ==
  /\ \A i \in 1..Len(rows) :
       /\ \E c \in Range(sArgs.store.candidates) : c.id = rows[i]
       /\ candidateOf(rows[i]).overall_score # NullNum
  /\ \A i \in 1..(Len(rows) - 1) :
       candidateOf(rows[i]).overall_score >= candidateOf(rows[i + 1]).overall_score

\* C19 as stated: for every message with the phrasing "top/best/highest N
\* candidates" or "top N ... of/for X" the list smartSearch returns holds at most N
\* candidates, N being the number written, or at most 20 when none is written, in
\* descending order of overall_score.
C19_Original ==
  (Searched /\ Result.impl = 1 /\ sArgs.fault = NoFault /\ sArgs.history = Hist_none /\ AsksForTop) =>
    /\ Len(Result.rows) <= WrittenCount
    /\ Descending(Result.rows)

\* the count of the "top N of/for X" strategy: the number of its match, else the limit
TopOfCount ==
  IF Group(TopOfMatch, sArgs.query, 1) # Null THEN parseInt(Group(TopOfMatch, sArgs.query, 1))
  ELSE SearchCtx.limit

\* C19, amended: a list returned by the "top N candidates" strategy holds at most
\* as many candidates as the count extractRequestedCount finds in the message, a
\* number written in it from 1 to 100, or at most 20 when it finds none; a list
\* returned by the "top N of/for X" strategy holds at most N candidates, N being
\* the number written after the trigger word, or at most that limit when no number
\* is written there; both lists are in descending order of overall_score.
C19_TopLists ==
  Searched /\ Result.impl = 1 =>
    /\ \/ SearchCtx.limit \in numbersIn(sArgs.query) \cap (1..100)
       \/ SearchCtx.limit = 20 /\ extractRequestedCount(sArgs.query) = NoCount
    /\ Result.type = "top_candidates" =>
         /\ Len(Result.rows) <= SearchCtx.limit
         /\ Descending(Result.rows)
    /\ Result.type = "top_candidates_for_skill" =>
         /\ TopOfCount \in numbersIn(sArgs.query) \cup {SearchCtx.limit}
         /\ Len(Result.rows) <= TopOfCount
         /\ Descending(Result.rows)

\* "top 2 candidates" got the two highest scored of the three scored candidates
C19_Witness ==
  /\ Searched /\ Result.impl = 1
  /\ sArgs.query = Q_top2 /\ sArgs.store = FullStore
  /\ Result.type = "top_candidates"
  /\ Len(Result.rows) = 2
====
